---- MODULE Spec2Model ----
(***************************************************************************)
(* Session state machine of the IRBIS64 client (irbis/connection.py and    *)
(* the irbis/connection package): registration with client-id collision    *)
(* retry, unregistration, the database stack, and the commands built on    *)
(* execute / execute_async.  One command is in flight at a time; a command *)
(* is split at its I/O points (socket connect, send, receive), where the   *)
(* network and the server choose the outcome.                              *)
(***************************************************************************)
EXTENDS Integers, Sequences, FiniteSets, TLC

VARIABLES
    host, port, username, password, database,   \* Connection fields
    client_id, query_id, connected, _stack,
    server_version, ini_file,
    op,         \* the command being run, or the last one that ended
    pc,         \* position inside the command: idle / open / send / recv / resp
    query,      \* the ClientQuery handed to execute
    response,   \* <<>> or <<the ServerResponse returned by execute>>
    ret, err,   \* result and exception of the last command that ended
    nopen,      \* connections opened by the current command
    nsent,      \* request packets sent by the current command
    ngen,       \* client ids drawn by the current command
    ncoll,      \* -3337 answers received by the current command
    nrel,       \* responses released (closed) by the current command
    shadow,     \* history: <<database, _stack>> as they were before each push
    nresp,      \* responses obtained from execute by the current command
    conn,       \* the connection of the current call of execute
    record,     \* the Record the command works on (the caller's or a new one)
    local       \* the local variables of the command that outlive a request

sessionVars == <<host, port, username, password, database, client_id,
                 query_id, connected, _stack, server_version, ini_file>>
countVars == <<nopen, nsent, ngen, ncoll, nrel, nresp>>
vars == <<host, port, username, password, database, client_id, query_id,
          connected, _stack, server_version, ini_file, op, pc, query,
          response, ret, err, nopen, nsent, ngen, ncoll, nrel, shadow,
          nresp, conn, record, local>>

----------------------------------------------------------------------------
(* Bounds of the model *)

MaxCount == 3       \* the per-command counters saturate here
MaxQueryId == 3     \* no new query is built once query_id reached this
MaxStack == 2       \* depth of the database stack
MAX_POSTINGS == 2   \* scaled-down irbis._common.MAX_POSTINGS
MaxFields == 2      \* no field is added to a record that has this many

(* Program constants *)

MinClientId == 100000
MaxClientId == 999999
CLIENT_ID_COLLISION == 0 - 3337

None == "None"
DEFAULT_HOST == "localhost"
DEFAULT_PORT == 6666
DEFAULT_DATABASE == "IBIS"

REGISTER_CLIENT == "REGISTER_CLIENT"
UNREGISTER_CLIENT == "UNREGISTER_CLIENT"
FORMAT_RECORD == "FORMAT_RECORD"
READ_RECORD == "READ_RECORD"
UPDATE_RECORD == "UPDATE_RECORD"
UNLOCK_RECORDS == "UNLOCK_RECORDS"
GET_MAX_MFN == "GET_MAX_MFN"
SEARCH == "SEARCH"
READ_DOCUMENT == "READ_DOCUMENT"
READ_TERMS == "READ_TERMS"
LIST_FILES == "LIST_FILES"
UPDATE_INI_FILE == "UPDATE_INI_FILE"
SAVE_RECORD_GROUP == "6"     \* the literal command code of write_records

(* Values the environment supplies *)

ClientIds_short == {MinClientId - 1, MaxClientId}
ClientIds == {MinClientId, MaxClientId}       \* draws of random.randint
RetCodes == {CLIENT_ID_COLLISION, 0 - 1, 0}   \* return codes of the server
PushNames == {"", "X", "Y"}                 \* arguments of push_database
Line1 == <<"1", "#", "a">>
Line2 == <<"x">>
Bodies == {<<>>, <<Line1>>, <<Line1, Line2>>} \* payload lines of a response
Versions == {"64.2012"}

NoQuery == [command |-> None, client_id |-> 0, query_id |-> 0, lines |-> <<>>]

\* No socket yet / no record at hand
NoConn == [state |-> "none", wrote |-> "nothing", nsend |-> 0, nread |-> 0]
NoRecord == <<>>
NoLocal == [mfn |-> 0, version |-> 0, database |-> None, dont_parse |-> FALSE]

Inc(n) == IF n < MaxCount THEN n + 1 ELSE n

Truthy(s) == s # None /\ s # ""

\* Python's `a or b`
Or(a, b) == IF Truthy(a) THEN a ELSE b
OrInt(a, b) == IF a # 0 THEN a ELSE b

----------------------------------------------------------------------------
(* Initial state: the fields as Connection.__init__ leaves them, followed  *)
(* by an optional parse_connection_string (connection.py:621-652), which   *)
(* stores the stripped values verbatim, '' and port 0 included.  At most   *)
(* one of the five credentials starts out missing.                         *)

Credentials == {"host", "port", "username", "password", "database"}

Init ==
    /\ \E missing \in Credentials \cup {None} :
        /\ host = IF missing = "host" THEN "" ELSE DEFAULT_HOST
        /\ port = IF missing = "port" THEN 0 ELSE DEFAULT_PORT
        /\ username = IF missing = "username" THEN None ELSE "user"
        /\ password = IF missing = "password" THEN None ELSE "pwd"
        /\ database = IF missing = "database" THEN "" ELSE DEFAULT_DATABASE
    /\ client_id = 0
    /\ query_id = 0
    /\ connected = FALSE
    /\ _stack = <<>>
    /\ server_version = None
    /\ ini_file = <<>>
    /\ op = None
    /\ pc = "idle"
    /\ query = NoQuery
    /\ response = <<>>
    /\ ret = <<>>
    /\ err = None
    /\ nopen = 0 /\ nsent = 0 /\ ngen = 0 /\ ncoll = 0 /\ nrel = 0
    /\ shadow = <<>>
    /\ nresp = 0
    /\ conn = NoConn
    /\ record = NoRecord
    /\ local = NoLocal

----------------------------------------------------------------------------
(* Query and response helpers *)

\* ClientQuery(connection, command): the constructor increments the
\* connection's query_id and seeds the preamble with it and the client id.
ClientQuery(qid, cid, command) ==
    [command |-> command, client_id |-> cid, query_id |-> qid + 1,
     lines |-> <<>>]

\* response.get_return_code(): the integer of the return-code line.
get_return_code(r) == r.code

\* response.check_return_code() with the default accepted set: raises
\* IrbisError when the code is negative.
check_return_code(r) == get_return_code(r) >= 0

\* response.utf_remaining_lines(): the unconsumed payload lines.
utf_remaining_lines(r) == r.body

\* line.split('#', 1): index of the first '#', 0 when there is none.
FirstHash(line) ==
    IF \E i \in 1..Len(line) : line[i] = "#"
    THEN CHOOSE i \in 1..Len(line) :
            line[i] = "#" /\ \A j \in 1..(i - 1) : line[j] # "#"
    ELSE 0

\* line.split('#', 1)[1]
AfterHash(line) == SubSeq(line, FirstHash(line) + 1, Len(line))

\* The INI lines _connect hands to IniFile.parse: text[1:] of the first block.
IniLines(r) == IF r.body = <<>> THEN <<>> ELSE Tail(r.body)

\* The command ends normally / with an exception.
Return(v) == pc' = "idle" /\ ret' = <<v>> /\ err' = None
ReturnNone == pc' = "idle" /\ ret' = <<>> /\ err' = None
Raise(e) == pc' = "idle" /\ ret' = <<>> /\ err' = e

\* A name handed back to the caller, held like every text the session
\* returns: lines of symbols, here one line of one symbol
Text(name) == <<<<name>>>>

\* A command starts: nothing opened, sent, drawn or released yet.  The
\* commands started with Begin take no record and build none.
BeginAny(name) ==
    op' = name /\ response' = <<>> /\ nresp' = 0 /\ conn' = NoConn
Begin(name) == BeginAny(name) /\ record' = record /\ local' = NoLocal

\* response.close(), also on leaving `with ... as response:`: the response
\* and the connection it is bound to are released.
Release ==
    /\ nrel' = Inc(nrel)
    /\ conn' = [conn EXCEPT !.state = "closed"]

SyncOps == {"connect", "disconnect", "format_records", "read_record",
            "write_record", "delete_record", "undelete_record",
            "get_max_mfn", "SyncHandlers.get_max_mfn", "search_count",
            "SyncHandlers.search_count", "SyncHandlers.format_record",
            "read_alphabet_table", "read_menu", "read_opt_file",
            "read_par_file", "read_text_file", "require_alphabet_table",
            "require_menu", "require_opt_file", "require_par_file",
            "require_text_file", "read_terms", "format_record", "__exit__",
            "read_records", "write_records", "list_files", "unlock_records",
            "update_ini_file", "write_text_file"}
AsyncOps == {"connect_async", "AsyncConnection.connect_async",
             "disconnect_async", "read_record_async", "get_max_mfn_async",
             "search_count_async", "format_record_async",
             "AsyncHandlers.format_record_async", "__aexit__"}

----------------------------------------------------------------------------
(* Registration *)

\* the collision test on every negative code / on every code but -3337
IsCollisionBroken(code) == code < 0
IsCollisionInverted(code) == code # CLIENT_ID_COLLISION
\* if response.get_return_code() == -3337: continue
IsCollision(code) == code = CLIENT_ID_COLLISION

\* A registration attempt that goes on counting the queries
RegistrationAttempt_counting ==
    /\ \E cid \in ClientIds :
        /\ client_id' = cid
        /\ query' = ClientQuery(query_id, cid, REGISTER_CLIENT)
    /\ query_id' = query'.query_id
    /\ pc' = "open"

\* One pass of `while True:` up to the call of execute: query_id = 0,
\* client_id = random.randint(100000, 999999), ClientQuery(REGISTER_CLIENT).
RegistrationAttempt ==
    /\ \E cid \in ClientIds :
        /\ client_id' = cid
        /\ query' = ClientQuery(0, cid, REGISTER_CLIENT)
    /\ query_id' = query'.query_id
    /\ pc' = "open"

\* Connection._connect(response)
_connect(r) ==
    /\ server_version' = r.version
    /\ connected' = TRUE
    /\ ini_file' = IniLines(r)

\* connect() on a connected session: return self.ini_file
connect_cached ==
    /\ Begin("connect")
    /\ Return(ini_file)
    /\ nopen' = 0 /\ nsent' = 0 /\ ngen' = 0 /\ ncoll' = 0 /\ nrel' = 0
    /\ UNCHANGED <<sessionVars, query, shadow>>

\* connect() on a session that is not connected: merge the arguments into
\* the fields one by one (the first missing one raises), then register.
connect_fresh(h, p, u, pw, db) ==
    LET mh == Or(h, host)
        mp == OrInt(p, port)
        mu == Or(u, username)
        mpw == Or(pw, password)
        mdb == Or(db, database)
        okh == Truthy(mh)
        okp == okh /\ mp # 0
        oku == okp /\ Truthy(mu)
        okpw == oku /\ Truthy(mpw)
        okdb == okpw /\ Truthy(mdb)
    IN  /\ Begin("connect")
        /\ host' = IF okh THEN mh ELSE host
        /\ port' = IF okp THEN mp ELSE port
        /\ username' = IF oku THEN mu ELSE username
        /\ password' = IF okpw THEN mpw ELSE password
        /\ database' = IF okdb THEN mdb ELSE database
        /\ nopen' = 0 /\ nsent' = 0 /\ ncoll' = 0 /\ nrel' = 0
        /\ IF okdb
           THEN /\ RegistrationAttempt
                /\ ngen' = 1
                /\ ret' = <<>> /\ err' = None
           ELSE /\ Raise("ValueError")
                /\ ngen' = 0
                /\ UNCHANGED <<client_id, query_id, query>>
        /\ UNCHANGED <<connected, _stack, server_version, ini_file, shadow>>

connect_noguard(h, p, u, pw, db) ==
    /\ pc = "idle"
    /\ connect_fresh(h, p, u, pw, db)

\* Connection.connect / SyncConnection.connect
connect(h, p, u, pw, db) ==
    /\ pc = "idle"
    /\ IF connected THEN connect_cached ELSE connect_fresh(h, p, u, pw, db)

\* The body of `with self.execute(query) as response:` in connect; leaving
\* the with block releases the response on both branches.
connect_response ==
    /\ pc = "resp" /\ op = "connect"
    /\ Release
    /\ UNCHANGED <<nresp, record, local>>
    /\ response' = <<>>
    /\ IF IsCollision(get_return_code(response[1]))
       THEN /\ RegistrationAttempt
            /\ ngen' = Inc(ngen)
            /\ UNCHANGED <<connected, server_version, ini_file, ret, err>>
       ELSE /\ _connect(response[1])
            /\ Return(ini_file')
            /\ UNCHANGED <<client_id, query_id, query, ngen>>
    /\ UNCHANGED <<host, port, username, password, database, _stack, op,
                   nopen, nsent, ncoll, shadow>>

\* The registration loop of connect_async, entered without looking at the
\* credentials.
connect_async_loop(name) ==
    /\ Begin(name)
    /\ RegistrationAttempt
    /\ ngen' = 1
    /\ nopen' = 0 /\ nsent' = 0 /\ ncoll' = 0 /\ nrel' = 0
    /\ ret' = <<>> /\ err' = None
    /\ UNCHANGED <<host, port, username, password, database, connected,
                   _stack, server_version, ini_file, shadow>>

\* Connection.connect_async (irbis/connection.py): no connected check.
connect_async ==
    /\ pc = "idle"
    /\ connect_async_loop("connect_async")

\* AsyncConnection.connect_async (irbis/connection/async_connection.py)
AsyncConnection_connect_async ==
    /\ pc = "idle"
    /\ IF connected
       THEN /\ Begin("AsyncConnection.connect_async")
            /\ Return(ini_file)
            /\ nopen' = 0 /\ nsent' = 0 /\ ngen' = 0 /\ ncoll' = 0
            /\ nrel' = 0
            /\ UNCHANGED <<sessionVars, query, shadow>>
       ELSE connect_async_loop("AsyncConnection.connect_async")

\* connect_async after `response = await self.execute_async(query)`
connect_async_response ==
    /\ pc = "resp"
    /\ op \in {"connect_async", "AsyncConnection.connect_async"}
    /\ Release
    /\ UNCHANGED <<nresp, record, local>>
    /\ response' = <<>>
    /\ IF IsCollision(get_return_code(response[1]))
       THEN /\ RegistrationAttempt
            /\ ngen' = Inc(ngen)
            /\ UNCHANGED <<connected, server_version, ini_file, ret, err>>
       ELSE /\ _connect(response[1])
            /\ Return(ini_file')
            /\ UNCHANGED <<client_id, query_id, query, ngen>>
    /\ UNCHANGED <<host, port, username, password, database, _stack, op,
                   nopen, nsent, ncoll, shadow>>

----------------------------------------------------------------------------
(* Unregistration *)

\* Connection.disconnect / SyncConnection.disconnect up to execute_forget
disconnect ==
    /\ pc = "idle"
    /\ Begin("disconnect")
    /\ nopen' = 0 /\ nsent' = 0 /\ ngen' = 0 /\ ncoll' = 0 /\ nrel' = 0
    /\ IF ~connected
       THEN /\ ReturnNone
            /\ UNCHANGED <<sessionVars, query, shadow>>
       ELSE /\ query_id < MaxQueryId
            /\ query' = ClientQuery(query_id, client_id, UNREGISTER_CLIENT)
            /\ query_id' = query'.query_id
            /\ pc' = "open"
            /\ ret' = <<>> /\ err' = None
            /\ UNCHANGED <<host, port, username, password, database,
                           client_id, connected, _stack, server_version,
                           ini_file, shadow>>

\* disconnect that checks the return code of the unregister answer
disconnect_response_checked ==
    /\ pc = "resp" /\ op = "disconnect"
    /\ Release
    /\ UNCHANGED <<nresp, record, local>>
    /\ response' = <<>>
    /\ IF check_return_code(response[1])
       THEN connected' = FALSE /\ ReturnNone
       ELSE connected' = connected /\ Raise("IrbisError")
    /\ UNCHANGED <<host, port, username, password, database, client_id,
                   query_id, _stack, server_version, ini_file, op, query,
                   nopen, nsent, ngen, ncoll, shadow>>

\* execute_forget: `with self.execute(query): pass`, then
\* self.connected = False
disconnect_response ==
    /\ pc = "resp" /\ op = "disconnect"
    /\ Release
    /\ UNCHANGED <<nresp, record, local>>
    /\ response' = <<>>
    /\ connected' = FALSE
    /\ ReturnNone
    /\ UNCHANGED <<host, port, username, password, database, client_id,
                   query_id, _stack, server_version, ini_file, op, query,
                   nopen, nsent, ngen, ncoll, shadow>>

\* Connection.disconnect_async / AsyncConnection.disconnect_async up to
\* `await self.execute_async(query)`
disconnect_async ==
    /\ pc = "idle"
    /\ Begin("disconnect_async")
    /\ nopen' = 0 /\ nsent' = 0 /\ ngen' = 0 /\ ncoll' = 0 /\ nrel' = 0
    /\ IF ~connected
       THEN /\ ReturnNone
            /\ UNCHANGED <<sessionVars, query, shadow>>
       ELSE /\ query_id < MaxQueryId
            /\ query' = ClientQuery(query_id, client_id, UNREGISTER_CLIENT)
            /\ query_id' = query'.query_id
            /\ pc' = "open"
            /\ ret' = <<>> /\ err' = None
            /\ UNCHANGED <<host, port, username, password, database,
                           client_id, connected, _stack, server_version,
                           ini_file, shadow>>

\* response.close(); self.connected = False
disconnect_async_response ==
    /\ pc = "resp" /\ op = "disconnect_async"
    /\ Release
    /\ UNCHANGED <<nresp, record, local>>
    /\ response' = <<>>
    /\ connected' = FALSE
    /\ ReturnNone
    /\ UNCHANGED <<host, port, username, password, database, client_id,
                   query_id, _stack, server_version, ini_file, op, query,
                   nopen, nsent, ngen, ncoll, shadow>>

----------------------------------------------------------------------------
(* Answers of the server to the commands *)

FieldLine1 == <<"2", "0", "0", "#", "^", "a", "X">>
FieldLine2 == <<"7", "0", "0", "#", "v", "^", "b", "Y">>
VersionLine == <<"0", "#", "1">>

\* Record texts a READ_RECORD answer may carry: nothing, a record without
\* fields, plain records, a logically and a physically deleted record, a
\* record without status part, and a text that is no record.
ReadTexts ==
    {<<>>,
     <<<<"5", "#", "0">>, VersionLine>>,
     <<<<"5", "#", "0">>, VersionLine, FieldLine1>>,
     <<<<"5", "#", "3", "2">>, VersionLine, FieldLine1, FieldLine2>>,
     <<<<"5", "#", "3", "3">>, VersionLine, FieldLine1>>,
     <<<<"5", "#", "2">>, VersionLine, FieldLine1>>,
     <<<<"x", "#", "0">>, VersionLine>>}

\* Texts an UPDATE_RECORD answer may carry: the first line, then the rest
\* of the record in one line
EchoRest == <<"0", "#", "2", "\\x1E">> \o FieldLine2
EchoTexts ==
    {<<>>,
     <<<<"6", "#", "0">>, EchoRest>>,
     <<<<"6">>, EchoRest>>,
     <<<<"6", "#", "0">>>>}

\* The return codes the server may answer a command with
CodesFor(command) ==
    CASE command = READ_RECORD -> {0 - 1, 0 - 603, 0 - 202, 0}
      [] command = READ_TERMS -> {0 - 603, 0 - 202, 0}
      [] command = UPDATE_RECORD -> {0 - 1, 6}
      [] command = UNLOCK_RECORDS -> {0 - 1, 0}
      [] command = GET_MAX_MFN -> {0 - 1, 0, 7}
      [] command = SEARCH -> {0 - 1, 0}
      [] command = READ_DOCUMENT -> {0}
      [] OTHER -> RetCodes

\* The payload lines the server may answer a command with
BodiesFor(command) ==
    CASE command = READ_RECORD -> ReadTexts
      [] command = UPDATE_RECORD -> EchoTexts
      [] command = UNLOCK_RECORDS -> {<<>>}
      [] command = GET_MAX_MFN -> {<<>>}
      [] command = SEARCH -> {<<>>, <<<<"3">>>>, <<<<"x">>>>}
      [] command = READ_DOCUMENT -> {<<>>, <<Line1, Line2>>}
      [] command = READ_TERMS -> {<<>>, <<Line1>>}
      [] OTHER -> Bodies

----------------------------------------------------------------------------
(* Transport: one connection per request *)

\* An exception raised inside execute / execute_async: no caller catches
\* it, so the command ends with it and nothing else is done.
Propagate(e) ==
    /\ Raise(e)
    /\ UNCHANGED <<sessionVars, op, query, response, countVars, shadow, conn,
                   record, local>>

\* A transport that keeps the connection of the previous request of the
\* command and sends the next request on it
sock_connect_reused ==
    /\ pc = "open"
    /\ \/ /\ nopen' = Inc(nopen)
          /\ conn' = IF conn.state = "none"
                     THEN [NoConn EXCEPT !.state = "open"]
                     ELSE [conn EXCEPT !.state = "open"]
          /\ pc' = "send"
          /\ UNCHANGED <<sessionVars, op, query, response, ret, err, nsent,
                         ngen, ncoll, nrel, shadow, nresp, record, local>>
       \/ Propagate("TransportError")

\* sock = socket.socket(); sock.connect((host, port)) /
\* asyncio.open_connection(host, port): a new connection for this call
sock_connect ==
    /\ pc = "open"
    /\ \/ /\ nopen' = Inc(nopen)
          /\ conn' = [NoConn EXCEPT !.state = "open"]
          /\ pc' = "send"
          /\ UNCHANGED <<sessionVars, op, query, response, ret, err, nsent,
                         ngen, ncoll, nrel, shadow, nresp, record, local>>
       \/ Propagate("TransportError")

\* The packet leaves on the connection of this call: all of it, or only a
\* prefix of it.
Transmit(part) ==
    /\ nsent' = Inc(nsent)
    /\ conn' = [conn EXCEPT !.wrote = part, !.nsend = Inc(conn.nsend)]
    /\ pc' = "recv"
    /\ UNCHANGED <<sessionVars, op, query, response, ret, err, nopen,
                   ngen, ncoll, nrel, shadow, nresp, record, local>>

\* packet = query.encode(); sock.send(packet): socket.send hands over as
\* many bytes as the kernel takes and returns their number, which execute
\* does not look at.
sock_send ==
    /\ pc = "send"
    /\ \/ \E part \in {"prefix", "whole"} : Transmit(part)
       \/ Propagate("TransportError")

\* packet = query.encode(); writer.write(packet): the stream writer queues
\* the whole packet.
writer_write ==
    /\ pc = "send"
    /\ \/ Transmit("whole")
       \/ Propagate("TransportError")

\* The answer of the server has arrived in full and initial_parse is done.
Received(code, body, version) ==
    /\ response' = <<[code |-> code, body |-> body, version |-> version]>>
    /\ ncoll' = IF code = CLIENT_ID_COLLISION THEN Inc(ncoll) ELSE ncoll
    /\ nresp' = Inc(nresp)
    /\ pc' = "resp"
    /\ UNCHANGED <<sessionVars, op, query, ret, err, nopen, nsent, ngen,
                   nrel, shadow, record, local>>

\* result.read_data(sock); result.initial_parse(); return result
read_data(code, body, version) ==
    /\ pc = "recv"
    /\ Received(code, body, version)
    /\ conn' = [conn EXCEPT !.nread = Inc(conn.nread)]

\* await result.read_data_async(reader); result.initial_parse();
\* writer.close(); return result
read_data_async(code, body, version) ==
    /\ pc = "recv"
    /\ Received(code, body, version)
    /\ conn' = [conn EXCEPT !.nread = Inc(conn.nread), !.state = "closed"]

\* read_data / read_data_async fails
read_data_fails ==
    /\ pc = "recv"
    /\ Propagate("TransportError")

\* The task running the command is cancelled while it is suspended in
\* `await asyncio.open_connection(...)` or `await
\* result.read_data_async(reader)`: CancelledError is raised there.
cancel ==
    /\ pc \in {"open", "recv"}
    /\ Propagate("CancelledError")

\* Connection.execute / SyncConnection.execute
execute ==
    /\ op \in SyncOps
    /\ \/ sock_connect
       \/ sock_send
       \/ \E code \in CodesFor(query.command),
             body \in BodiesFor(query.command), version \in Versions :
            read_data(code, body, version)
       \/ read_data_fails

\* Connection.execute_async / AsyncConnection.execute_async
execute_async ==
    /\ op \in AsyncOps
    /\ \/ sock_connect
       \/ writer_write
       \/ \E code \in CodesFor(query.command),
             body \in BodiesFor(query.command), version \in Versions :
            read_data_async(code, body, version)
       \/ cancel
       \/ read_data_fails

----------------------------------------------------------------------------
(* Record codec *)

\* Text is a sequence of one-character strings; a payload is a sequence of
\* lines.
Digits == <<"0", "1", "2", "3", "4", "5", "6", "7", "8", "9">>

\* Record status bits (LOGICALLY_DELETED, PHYSICALLY_DELETED) and the
\* delimiters of the wire format
LOGICALLY_DELETED == 1
PHYSICALLY_DELETED == 2
HASH == "#"
MARKER == "^"
SHORT_DELIMITER == "\\x1E"

\* a & b and a | b on non-negative integers
RECURSIVE BitAnd(_, _)
BitAnd(a, b) ==
    IF a = 0 \/ b = 0 THEN 0
    ELSE (a % 2) * (b % 2) + 2 * BitAnd(a \div 2, b \div 2)
BitOr(a, b) == a + b - BitAnd(a, b)
\* a & ~b
BitClear(a, b) == a - BitAnd(a, b)

\* int(text) succeeds: a non-empty run of decimal digits
IsInt(text) ==
    /\ text # <<>>
    /\ \A i \in 1..Len(text) : \E d \in 1..10 : Digits[d] = text[i]

DigitValue(c) == (CHOOSE d \in 1..10 : Digits[d] = c) - 1

\* int(text)
RECURSIVE int(_)
int(text) ==
    IF text = <<>> THEN 0
    ELSE 10 * int(SubSeq(text, 1, Len(text) - 1)) + DigitValue(text[Len(text)])

\* str(n) for n >= 0
RECURSIVE str(_)
str(n) ==
    IF n < 10 THEN <<Digits[n + 1]>>
    ELSE str(n \div 10) \o <<Digits[(n % 10) + 1]>>

\* text.split(sep): the pieces between the separators, at least one piece
RECURSIVE split(_, _)
split(text, sep) ==
    IF \A i \in 1..Len(text) : text[i] # sep THEN <<text>>
    ELSE LET i == CHOOSE k \in 1..Len(text) :
                      text[k] = sep /\ \A j \in 1..(k - 1) : text[j] # sep
         IN  <<SubSeq(text, 1, i - 1)>>
                 \o split(SubSeq(text, i + 1, Len(text)), sep)

\* text.split(sep, 1): cut at the first separator only
split1(text, sep) ==
    IF \A i \in 1..Len(text) : text[i] # sep THEN <<text>>
    ELSE LET i == CHOOSE k \in 1..Len(text) :
                      text[k] = sep /\ \A j \in 1..(k - 1) : text[j] # sep
         IN  <<SubSeq(text, 1, i - 1), SubSeq(text, i + 1, Len(text))>>

\* sep.join(pieces)
RECURSIVE join(_, _)
join(pieces, sep) ==
    IF pieces = <<>> THEN <<>>
    ELSE IF Len(pieces) = 1 THEN pieces[1]
    ELSE pieces[1] \o <<sep>> \o join(Tail(pieces), sep)

\* short_irbis_to_lines(text)
short_irbis_to_lines(text) == split(text, SHORT_DELIMITER)

\* response.utf(): the next line of the payload, '' when there is none left
utf(r, i) == IF i <= Len(r.body) THEN r.body[i] ELSE <<>>

\* SubField.parse: the code is the first character, the value is the rest
SubField_parse(text) == [code |-> text[1], value |-> Tail(text)]

\* str(subfield)
SubField_str(sf) == <<MARKER, sf.code>> \o sf.value

\* The subfields of the non-empty runs, in order
RECURSIVE SubFields_parse(_)
SubFields_parse(runs) ==
    IF runs = <<>> THEN <<>>
    ELSE IF runs[1] = <<>> THEN SubFields_parse(Tail(runs))
    ELSE <<SubField_parse(runs[1])>> \o SubFields_parse(Tail(runs))

\* Field.parse can read the line: a numeric tag, then '#'
Field_ok(line) ==
    LET parts == split1(line, HASH) IN Len(parts) = 2 /\ IsInt(parts[1])

\* Field.parse(line): the tag up to the first '#', the bare value before the
\* first marker, then one subfield per marker
Field_parse(line) ==
    LET parts == split1(line, HASH)
        runs == split(parts[2], MARKER)
    IN  [tag |-> int(parts[1]),
         value |-> runs[1],
         subfields |-> SubFields_parse(Tail(runs))]

RECURSIVE SubFields_str(_)
SubFields_str(sfs) ==
    IF sfs = <<>> THEN <<>>
    ELSE SubField_str(sfs[1]) \o SubFields_str(Tail(sfs))

\* str(field)
Field_str(f) == str(f.tag) \o <<HASH>> \o f.value \o SubFields_str(f.subfields)

\* Record(): a new empty record
Record == [database |-> None, mfn |-> 0, status |-> 0, version |-> 0,
           fields |-> <<>>]

\* Record.__bool__
Record_bool(rec) == Len(rec.fields) # 0

\* is_deleted that looks at the LOGICALLY_DELETED bit only
is_deleted_logically(rec) == BitAnd(rec.status, LOGICALLY_DELETED) # 0

\* Record.is_deleted
is_deleted(rec) ==
    BitAnd(rec.status, BitOr(LOGICALLY_DELETED, PHYSICALLY_DELETED)) # 0

\* Record.encode
encode(rec) ==
    <<str(rec.mfn) \o <<HASH>> \o str(rec.status),
      <<"0", HASH>> \o str(rec.version)>>
        \o [i \in 1..Len(rec.fields) |-> Field_str(rec.fields[i])]

\* Parsing of the field lines that takes a blank line for the end of the
\* record
RECURSIVE ParseFields_stopping(_)
ParseFields_stopping(lines) ==
    IF lines = <<>> THEN <<>>
    ELSE IF lines[1] = <<>> THEN <<>>
    ELSE IF ~Field_ok(lines[1]) THEN <<>>
    ELSE <<Field_parse(lines[1])>> \o ParseFields_stopping(Tail(lines))

\* The fields of the non-blank lines up to the first line that Field.parse
\* cannot read
RECURSIVE ParseFields(_)
ParseFields(lines) ==
    IF lines = <<>> THEN <<>>
    ELSE IF lines[1] = <<>> THEN ParseFields(Tail(lines))
    ELSE IF ~Field_ok(lines[1]) THEN <<>>
    ELSE <<Field_parse(lines[1])>> \o ParseFields(Tail(lines))

FieldsOk(lines) ==
    \A i \in 1..Len(lines) : lines[i] = <<>> \/ Field_ok(lines[i])

\* Record.parse(text), statement by statement: the record as parse leaves
\* it and the exception it ends with (None when it returns).
Record_parse(rec, text) ==
    IF text = <<>> THEN [rec |-> rec, err |-> "ValueError"]
    ELSE
    LET parts == split(text[1], HASH) IN
    IF ~IsInt(parts[1]) THEN [rec |-> rec, err |-> "ValueError"]
    ELSE
    LET r1 == [rec EXCEPT !.mfn = int(parts[1])]
        hasStatus == Len(parts) # 1 /\ parts[2] # <<>>
    IN
    IF hasStatus /\ ~IsInt(parts[2]) THEN [rec |-> r1, err |-> "ValueError"]
    ELSE
    LET r2 == IF hasStatus THEN [r1 EXCEPT !.status = int(parts[2])] ELSE r1
    IN
    IF Len(text) < 2 THEN [rec |-> r2, err |-> "IndexError"]
    ELSE
    LET parts2 == split(text[2], HASH) IN
    IF Len(parts2) < 2 THEN [rec |-> r2, err |-> "IndexError"]
    ELSE IF ~IsInt(parts2[2]) THEN [rec |-> r2, err |-> "ValueError"]
    ELSE
    LET r3 == [r2 EXCEPT !.version = int(parts2[2])]
        rest == SubSeq(text, 3, Len(text))
    IN  [rec |-> [r3 EXCEPT !.fields = ParseFields(rest)],
         err |-> IF FieldsOk(rest) THEN None ELSE "ValueError"]

----------------------------------------------------------------------------
(* Database stack *)

\* pop_database that returns quietly when the stack is empty
pop_database_silent ==
    /\ pc = "idle"
    /\ Begin("pop_database")
    /\ nopen' = 0 /\ nsent' = 0 /\ ngen' = 0 /\ ncoll' = 0 /\ nrel' = 0
    /\ IF _stack = <<>>
       THEN /\ Return(Text(database))
            /\ UNCHANGED <<database, _stack, shadow>>
       ELSE /\ database' = _stack[Len(_stack)]
            /\ _stack' = SubSeq(_stack, 1, Len(_stack) - 1)
            /\ shadow' = SubSeq(shadow, 1, Len(shadow) - 1)
            /\ Return(Text(database))
    /\ UNCHANGED <<host, port, username, password, client_id, query_id,
                   connected, server_version, ini_file, query>>

\* Connection.pop_database
pop_database ==
    /\ pc = "idle"
    /\ Begin("pop_database")
    /\ nopen' = 0 /\ nsent' = 0 /\ ngen' = 0 /\ ncoll' = 0 /\ nrel' = 0
    /\ IF _stack = <<>>
       THEN /\ Raise("IndexError")
            /\ UNCHANGED <<database, _stack, shadow>>
       ELSE /\ database' = _stack[Len(_stack)]
            /\ _stack' = SubSeq(_stack, 1, Len(_stack) - 1)
            /\ shadow' = SubSeq(shadow, 1, Len(shadow) - 1)
            /\ Return(Text(database))
    /\ UNCHANGED <<host, port, username, password, client_id, query_id,
                   connected, server_version, ini_file, query>>

\* push_database that stores the new name instead of the previous one
push_database_new(name) ==
    /\ pc = "idle"
    /\ Begin("push_database")
    /\ nopen' = 0 /\ nsent' = 0 /\ ngen' = 0 /\ ncoll' = 0 /\ nrel' = 0
    /\ IF ~Truthy(name)
       THEN /\ Raise("AssertionError")
            /\ UNCHANGED <<database, _stack, shadow>>
       ELSE /\ Len(_stack) < MaxStack
            /\ _stack' = Append(_stack, name)
            /\ shadow' = Append(shadow, <<database, _stack>>)
            /\ database' = name
            /\ Return(Text(database))
    /\ UNCHANGED <<host, port, username, password, client_id, query_id,
                   connected, server_version, ini_file, query>>

\* push_database that stacks nothing when the session is already on the
\* database asked for
push_database_lazy(name) ==
    /\ pc = "idle"
    /\ Begin("push_database")
    /\ nopen' = 0 /\ nsent' = 0 /\ ngen' = 0 /\ ncoll' = 0 /\ nrel' = 0
    /\ IF ~Truthy(name)
       THEN /\ Raise("AssertionError")
            /\ UNCHANGED <<database, _stack, shadow>>
       ELSE /\ Len(_stack) < MaxStack
            /\ _stack' = IF name = database THEN _stack
                         ELSE Append(_stack, database)
            /\ shadow' = Append(shadow, <<database, _stack>>)
            /\ database' = name
            /\ Return(Text(database))
    /\ UNCHANGED <<host, port, username, password, client_id, query_id,
                   connected, server_version, ini_file, query>>

\* Connection.push_database
push_database(name) ==
    /\ pc = "idle"
    /\ Begin("push_database")
    /\ nopen' = 0 /\ nsent' = 0 /\ ngen' = 0 /\ ncoll' = 0 /\ nrel' = 0
    /\ IF ~Truthy(name)
       THEN /\ Raise("AssertionError")
            /\ UNCHANGED <<database, _stack, shadow>>
       ELSE /\ Len(_stack) < MaxStack
            /\ _stack' = Append(_stack, database)
            /\ shadow' = Append(shadow, <<database, _stack>>)
            /\ database' = name
            /\ Return(Text(database))
    /\ UNCHANGED <<host, port, username, password, client_id, query_id,
                   connected, server_version, ini_file, query>>

----------------------------------------------------------------------------
(* Formatting a group of records *)

Scripts == {"", "@brief"}
RecordLists == {[i \in 1..n |-> i] : n \in 0..(MAX_POSTINGS + 1)}

\* the batch check with the bound off by one
TooManyRecordsLax(records) == Len(records) > MAX_POSTINGS + 1
\* if len(records) > MAX_POSTINGS: raise IrbisError()
TooManyRecords(records) == Len(records) > MAX_POSTINGS

\* Connection.format_records up to the call of execute
format_records(script, records) ==
    /\ pc = "idle"
    /\ Begin("format_records")
    /\ nopen' = 0 /\ nsent' = 0 /\ ngen' = 0 /\ ncoll' = 0 /\ nrel' = 0
    /\ IF records = <<>>
       THEN /\ Return(<<>>)
            /\ UNCHANGED <<query_id, query>>
       ELSE IF ~Truthy(script)
       THEN /\ Raise("ValueError")
            /\ UNCHANGED <<query_id, query>>
       ELSE IF TooManyRecords(records)
       THEN /\ Raise("IrbisError")
            /\ UNCHANGED <<query_id, query>>
       ELSE /\ query_id + 1 < MaxQueryId
            /\ query' = ClientQuery(query_id, client_id, FORMAT_RECORD)
            /\ query_id' = query'.query_id
            /\ pc' = "open"
            /\ ret' = <<>> /\ err' = None
    /\ UNCHANGED <<host, port, username, password, database, client_id,
                   connected, _stack, server_version, ini_file, shadow>>

\* The body of `with self.execute(query) as response:` in format_records
format_records_response ==
    /\ pc = "resp" /\ op = "format_records"
    /\ Release
    /\ UNCHANGED <<nresp, record, local>>
    /\ response' = <<>>
    /\ LET r == response[1]
           lines == utf_remaining_lines(r)
       IN  IF ~check_return_code(r)
           THEN Raise("IrbisError")
           ELSE IF \E i \in 1..Len(lines) : FirstHash(lines[i]) = 0
           THEN Raise("IndexError")
           ELSE Return([i \in 1..Len(lines) |-> AfterHash(lines[i])])
    /\ UNCHANGED <<sessionVars, op, query, nopen, nsent, ngen, ncoll,
                   shadow>>

----------------------------------------------------------------------------
(* Reading, writing, deleting and restoring a record *)

\* The return codes below zero that read_record accepts
READ_RECORD_CODES == {0 - 201, 0 - 600, 0 - 602, 0 - 603}

\* response.check_return_code(allowed)
check_return_code_of(r, allowed) ==
    get_return_code(r) >= 0 \/ get_return_code(r) \in allowed

\* self.check_connection()
check_connection == connected

\* query.ansi(text) / query.add(number) / query.utf(text): one more line
ansi(text) == <<text>>
add(number) == IF number < 0 THEN <<"-">> \o str(0 - number) ELSE str(number)
IRBIS_DELIMITER == "\\x1F\\x1E"

\* A command starts working on `rec` (<<>> when it has no record yet).
Start(name, rec, loc) ==
    /\ pc = "idle"
    /\ BeginAny(name)
    /\ record' = rec
    /\ local' = loc
    /\ nopen' = 0 /\ nsent' = 0 /\ ngen' = 0 /\ ncoll' = 0 /\ nrel' = 0

\* query = ClientQuery(self, command) with its lines, handed to execute
Request(command, lines) ==
    /\ query' = [ClientQuery(query_id, client_id, command)
                    EXCEPT !.lines = lines]
    /\ query_id' = query'.query_id
    /\ pc' = "open"
    /\ ret' = <<>> /\ err' = None

NoRequest == UNCHANGED <<query_id, query>>

KeepSession ==
    UNCHANGED <<host, port, username, password, database, client_id,
                connected, _stack, server_version, ini_file, shadow>>

\* What a continuation leaves alone besides the result and the release
KeepCall == UNCHANGED <<op, nopen, nsent, ngen, ncoll, nresp>>

\* The READ_RECORD request of read_record / read_record_async
ReadRequest(mfn, version) ==
    Request(READ_RECORD,
            <<ansi(database), add(mfn)>>
                \o (IF version # 0 THEN <<add(version)>> ELSE <<>>))

\* Connection.read_record up to `with self.execute(query) as response:`
read_record(mfn, version) ==
    /\ Start("read_record", <<>>,
             [NoLocal EXCEPT !.mfn = mfn, !.version = version])
    /\ query_id + (IF version # 0 THEN 2 ELSE 1) <= MaxQueryId
    /\ IF mfn = 0
       THEN Raise("ValueError") /\ NoRequest
       ELSE ReadRequest(mfn, version)
    /\ KeepSession

\* Connection.read_record_async up to `await self.execute_async(query)`
read_record_async(mfn) ==
    /\ Start("read_record_async", <<>>, [NoLocal EXCEPT !.mfn = mfn])
    /\ query_id + 1 <= MaxQueryId
    /\ IF mfn = 0
       THEN Raise("ValueError") /\ NoRequest
       ELSE ReadRequest(mfn, 0)
    /\ KeepSession

\* Connection.write_record(record, dont_parse=...) up to
\* `with self.execute(query) as response:`, lock and actualize at their
\* defaults
write_record_body(rec, dont_parse, loc) ==
    LET db == Or(rec.database, database) IN
    IF ~Truthy(db) \/ ~Record_bool(rec)
    THEN Raise("ValueError") /\ NoRequest /\ local' = loc
    ELSE /\ Request(UPDATE_RECORD,
                    <<ansi(db), add(0), add(1),
                      join(encode(rec), IRBIS_DELIMITER)>>)
         /\ local' = [loc EXCEPT !.database = db,
                                 !.dont_parse = dont_parse]

\* Connection.write_record called by the user
write_record(rec, dont_parse) ==
    /\ pc = "idle"
    /\ BeginAny("write_record")
    /\ record' = <<rec>>
    /\ nopen' = 0 /\ nsent' = 0 /\ ngen' = 0 /\ ncoll' = 0 /\ nrel' = 0
    /\ query_id + 1 <= MaxQueryId
    /\ write_record_body(rec, dont_parse, NoLocal)
    /\ KeepSession

\* Connection.delete_record / Connection.undelete_record up to the
\* response of `record = self.read_record(mfn)`
delete_record(mfn) ==
    /\ Start("delete_record", <<>>, [NoLocal EXCEPT !.mfn = mfn])
    /\ query_id + 2 <= MaxQueryId
    /\ IF mfn = 0
       THEN Raise("ValueError") /\ NoRequest
       ELSE ReadRequest(mfn, 0)
    /\ KeepSession

undelete_record(mfn) ==
    /\ Start("undelete_record", <<>>, [NoLocal EXCEPT !.mfn = mfn])
    /\ query_id + 2 <= MaxQueryId
    /\ IF mfn = 0
       THEN Raise("ValueError") /\ NoRequest
       ELSE ReadRequest(mfn, 0)
    /\ KeepSession

\* unlock_records that names the database and leaves the MFNs out
unlock_records_database(mfn) ==
    IF ~Truthy(database)
    THEN Raise("ValueError") /\ NoRequest
    ELSE Request(UNLOCK_RECORDS, <<ansi(database)>>)

\* self.unlock_records([mfn]) up to `with self.execute(query) as response:`
unlock_records(mfn) ==
    IF ~Truthy(database)
    THEN Raise("ValueError") /\ NoRequest
    ELSE Request(UNLOCK_RECORDS, <<ansi(database), add(mfn)>>)

\* record.status |= LOGICALLY_DELETED / record.status &= ~LOGICALLY_DELETED
SetDeleted(rec) ==
    [rec EXCEPT !.status = BitOr(rec.status, LOGICALLY_DELETED)]
ClearDeleted(rec) ==
    [rec EXCEPT !.status = BitClear(rec.status, LOGICALLY_DELETED)]

\* What follows `record = self.read_record(mfn)` in delete_record and
\* undelete_record
delete_record_rest(rec) ==
    IF ~is_deleted(rec)
    THEN /\ record' = <<SetDeleted(rec)>>
         /\ write_record_body(SetDeleted(rec), TRUE, local)
    ELSE /\ record' = <<rec>>
         /\ ReturnNone /\ NoRequest /\ local' = local

undelete_record_rest(rec) ==
    IF is_deleted(rec)
    THEN /\ record' = <<ClearDeleted(rec)>>
         /\ write_record_body(ClearDeleted(rec), TRUE, local)
    ELSE /\ record' = <<rec>>
         /\ ReturnNone /\ NoRequest /\ local' = local

\* The body of `with self.execute(query) as response:` in read_record and
\* what follows it in read_record, delete_record and undelete_record
read_record_response ==
    /\ pc = "resp" /\ query.command = READ_RECORD
    /\ op \in {"read_record", "delete_record", "undelete_record"}
    /\ Release
    /\ response' = <<>>
    /\ LET r == response[1]
           p == Record_parse([Record EXCEPT !.database = database],
                             utf_remaining_lines(r))
       IN  IF ~check_return_code_of(r, READ_RECORD_CODES)
           THEN /\ Raise("IrbisError") /\ NoRequest
                /\ UNCHANGED <<record, local>>
           ELSE IF p.err # None
           THEN /\ Raise(p.err) /\ NoRequest
                /\ UNCHANGED <<record, local>>
           ELSE IF op = "delete_record" THEN delete_record_rest(p.rec)
           ELSE IF op = "undelete_record" THEN undelete_record_rest(p.rec)
           ELSE /\ record' = <<p.rec>>
                /\ local' = local
                /\ IF local.version # 0
                   THEN unlock_records(local.mfn)
                   ELSE Return(p.rec) /\ NoRequest
    /\ KeepSession
    /\ KeepCall

\* read_record_async after `await self.execute_async(query)`:
\* response.close() is the last statement before the return
read_record_async_response ==
    /\ pc = "resp" /\ op = "read_record_async"
    /\ response' = <<>>
    /\ LET r == response[1]
           p == Record_parse([Record EXCEPT !.database = database],
                             utf_remaining_lines(r))
       IN  IF ~check_return_code_of(r, READ_RECORD_CODES)
           THEN /\ Raise("IrbisError")
                /\ UNCHANGED <<record, nrel, conn>>
           ELSE IF p.err # None
           THEN /\ Raise(p.err)
                /\ UNCHANGED <<record, nrel, conn>>
           ELSE /\ record' = <<p.rec>>
                /\ Release
                /\ Return(p.rec)
    /\ NoRequest
    /\ local' = local
    /\ KeepSession
    /\ KeepCall

\* The body of `with self.execute(query) as response:` in unlock_records
\* and the return of read_record
unlock_records_response ==
    /\ pc = "resp" /\ query.command = UNLOCK_RECORDS
    /\ op = "read_record"
    /\ Release
    /\ response' = <<>>
    /\ IF ~check_return_code(response[1])
       THEN Raise("IrbisError")
       ELSE Return(record[1])
    /\ NoRequest
    /\ UNCHANGED <<record, local>>
    /\ KeepSession
    /\ KeepCall

\* The body of `with self.execute(query) as response:` in write_record and
\* the return of write_record, delete_record and undelete_record
write_record_response ==
    /\ pc = "resp" /\ query.command = UPDATE_RECORD
    /\ op \in {"write_record", "delete_record", "undelete_record"}
    /\ Release
    /\ response' = <<>>
    /\ LET r == response[1]
           text == <<utf(r, 1)>> \o short_irbis_to_lines(utf(r, 2))
           p == Record_parse([record[1] EXCEPT !.database = local.database],
                             text)
       IN  IF ~check_return_code(r)
           THEN Raise("IrbisError") /\ record' = record
           ELSE IF ~local.dont_parse
           THEN /\ record' = <<p.rec>>
                /\ IF p.err # None THEN Raise(p.err)
                   ELSE Return(get_return_code(r))
           ELSE /\ record' = record
                /\ IF op = "write_record" THEN Return(get_return_code(r))
                   ELSE ReturnNone
    /\ NoRequest
    /\ local' = local
    /\ KeepSession
    /\ KeepCall

----------------------------------------------------------------------------
(* Probes: get_max_mfn, search_count, format_record *)

\* A command without a record, working on local variables `loc`
Probe(name, loc) == Start(name, <<>>, loc) /\ query_id + 1 <= MaxQueryId

\* What a probe's continuation leaves alone
KeepProbe ==
    /\ NoRequest
    /\ UNCHANGED <<record, local>>
    /\ KeepSession
    /\ KeepCall

\* The request of get_max_mfn: `database or self.database or
\* throw_value_error()`, then ClientQuery(self, GET_MAX_MFN).ansi(database)
MaxMfnRequest(db) ==
    IF ~Truthy(Or(db, database))
    THEN Raise("ValueError") /\ NoRequest
    ELSE Request(GET_MAX_MFN, <<ansi(Or(db, database))>>)

\* Connection.get_max_mfn up to `with self.execute_ansi(...) as response:`
get_max_mfn(db) ==
    /\ Probe("get_max_mfn", NoLocal)
    /\ MaxMfnRequest(db)
    /\ KeepSession

\* The body of the with-block of Connection.get_max_mfn:
\* check_return_code raises on a code below zero
get_max_mfn_response ==
    /\ pc = "resp" /\ op = "get_max_mfn"
    /\ Release
    /\ response' = <<>>
    /\ IF ~check_return_code(response[1])
       THEN Raise("IrbisError")
       ELSE Return(get_return_code(response[1]))
    /\ KeepProbe

\* SyncHandlers.get_max_mfn: the request is made `if not
\* self.check_connection()`, otherwise 0 is returned
SyncHandlers_get_max_mfn(db) ==
    /\ Probe("SyncHandlers.get_max_mfn", NoLocal)
    /\ IF ~check_connection
       THEN MaxMfnRequest(db)
       ELSE Return(0) /\ NoRequest
    /\ KeepSession

\* The body of the with-block of SyncHandlers.get_max_mfn
SyncHandlers_get_max_mfn_response ==
    /\ pc = "resp" /\ op = "SyncHandlers.get_max_mfn"
    /\ Release
    /\ response' = <<>>
    /\ IF ~check_return_code(response[1])
       THEN Return(0)
       ELSE Return(get_return_code(response[1]))
    /\ KeepProbe

\* Connection.get_max_mfn_async / AsyncHandlers.get_max_mfn_async up to
\* `await self.execute_async(query)`
get_max_mfn_async(db) ==
    /\ Probe("get_max_mfn_async", NoLocal)
    /\ MaxMfnRequest(db)
    /\ KeepSession

\* AsyncHandlers.get_max_mfn_async after the await: the outcome of
\* check_return_code is not looked at
get_max_mfn_async_response ==
    /\ pc = "resp" /\ op = "get_max_mfn_async"
    /\ Release
    /\ response' = <<>>
    /\ Return(get_return_code(response[1]))
    /\ KeepProbe

\* The expressions search_count is called with
Expressions == {<<"K", "=", "a">>}

\* The request of search_count
SearchCountRequest(expression) ==
    Request(SEARCH, <<ansi(database), expression, add(0), add(0)>>)

\* response.number(): the next line as an integer
number_ok(r) == IsInt(utf(r, 1))
number(r) == int(utf(r, 1))

\* Connection.search_count up to `response = self.execute(query)`
search_count(expression) ==
    /\ Probe("search_count", NoLocal)
    /\ SearchCountRequest(expression)
    /\ KeepSession

\* Connection.search_count after execute: no with-block and no close
search_count_response ==
    /\ pc = "resp" /\ op = "search_count"
    /\ response' = <<>>
    /\ UNCHANGED <<nrel, conn>>
    /\ IF ~check_return_code(response[1])
       THEN Raise("IrbisError")
       ELSE IF ~number_ok(response[1])
       THEN Raise("ValueError")
       ELSE Return(number(response[1]))
    /\ KeepProbe

\* SyncHandlers.search_count up to `response = self.execute(query)`
SyncHandlers_search_count(expression) ==
    /\ Probe("SyncHandlers.search_count", NoLocal)
    /\ IF check_connection
       THEN SearchCountRequest(expression)
       ELSE Return(0) /\ NoRequest
    /\ KeepSession

\* SyncHandlers.search_count after execute: no with-block and no close
SyncHandlers_search_count_response ==
    /\ pc = "resp" /\ op = "SyncHandlers.search_count"
    /\ response' = <<>>
    /\ UNCHANGED <<nrel, conn>>
    /\ IF ~check_return_code(response[1])
       THEN Return(0)
       ELSE IF ~number_ok(response[1])
       THEN Raise("ValueError")
       ELSE Return(number(response[1]))
    /\ KeepProbe

\* AsyncHandlers.search_count_async up to `await self.execute_async(query)`
search_count_async(expression) ==
    /\ Probe("search_count_async", NoLocal)
    /\ IF check_connection
       THEN SearchCountRequest(expression)
       ELSE Return(0) /\ NoRequest
    /\ KeepSession

\* AsyncHandlers.search_count_async after the await: response.close() is
\* reached only when the code is accepted and the number is read
search_count_async_response ==
    /\ pc = "resp" /\ op = "search_count_async"
    /\ response' = <<>>
    /\ IF ~check_return_code(response[1])
       THEN Return(0) /\ UNCHANGED <<nrel, conn>>
       ELSE IF ~number_ok(response[1])
       THEN Raise("ValueError") /\ UNCHANGED <<nrel, conn>>
       ELSE Return(number(response[1])) /\ Release
    /\ KeepProbe

\* The MFNs format_record is called with
MfnArgs == {0, 5}

\* The request of format_record for the record with the given MFN
FormatRecordRequest(script, mfn) ==
    Request(FORMAT_RECORD, <<ansi(database), <<script>>, add(1), add(mfn)>>)

\* response.utf_remaining_text(): the remaining lines as one text
utf_remaining_text(r) == join(utf_remaining_lines(r), "\n")

\* Connection.format_record up to `with self.execute(query) as response:`
format_record(script, mfn) ==
    /\ Probe("format_record", NoLocal)
    /\ IF ~Truthy(script) \/ mfn = 0
       THEN Raise("ValueError") /\ NoRequest
       ELSE FormatRecordRequest(script, mfn)
    /\ KeepSession

\* The body of the with-block of Connection.format_record
format_record_response ==
    /\ pc = "resp" /\ op = "format_record"
    /\ Release
    /\ response' = <<>>
    /\ IF ~check_return_code(response[1])
       THEN Raise("IrbisError")
       ELSE Return(utf_remaining_text(response[1]))
    /\ KeepProbe

\* Connection.format_record_async up to `await self.execute_async(query)`
format_record_async(script, mfn) ==
    /\ Probe("format_record_async", NoLocal)
    /\ IF ~Truthy(script) \/ mfn = 0
       THEN Raise("ValueError") /\ NoRequest
       ELSE FormatRecordRequest(script, mfn)
    /\ KeepSession

\* Connection.format_record_async after the await: check_return_code
\* raises before response.close() is reached
format_record_async_response ==
    /\ pc = "resp" /\ op = "format_record_async"
    /\ response' = <<>>
    /\ IF ~check_return_code(response[1])
       THEN Raise("IrbisError") /\ UNCHANGED <<nrel, conn>>
       ELSE Return(utf_remaining_text(response[1])) /\ Release
    /\ KeepProbe

\* SyncHandlers.format_record up to `with self.execute(query) as response:`
SyncHandlers_format_record(script, mfn) ==
    /\ Probe("SyncHandlers.format_record", NoLocal)
    /\ IF check_connection /\ Truthy(script)
       THEN FormatRecordRequest(script, mfn)
       ELSE Return(<<>>) /\ NoRequest
    /\ KeepSession

\* The body of the with-block of SyncHandlers.format_record
SyncHandlers_format_record_response ==
    /\ pc = "resp" /\ op = "SyncHandlers.format_record"
    /\ Release
    /\ response' = <<>>
    /\ IF ~check_return_code(response[1])
       THEN Return(<<>>)
       ELSE Return(utf_remaining_text(response[1]))
    /\ KeepProbe

\* AsyncHandlers.format_record_async up to
\* `await self.execute_async(query)`
AsyncHandlers_format_record_async(script, mfn) ==
    /\ Probe("AsyncHandlers.format_record_async", NoLocal)
    /\ IF check_connection /\ Truthy(script)
       THEN FormatRecordRequest(script, mfn)
       ELSE Return(<<>>) /\ NoRequest
    /\ KeepSession

\* AsyncHandlers.format_record_async after the await: the early return
\* leaves before response.close()
AsyncHandlers_format_record_async_response ==
    /\ pc = "resp" /\ op = "AsyncHandlers.format_record_async"
    /\ response' = <<>>
    /\ IF ~check_return_code(response[1])
       THEN Return(<<>>) /\ UNCHANGED <<nrel, conn>>
       ELSE Return(utf_remaining_text(response[1])) /\ Release
    /\ KeepProbe

----------------------------------------------------------------------------
(* Server files: read_* and require_* *)

\* The names of the files asked for; AlphabetTable.FILENAME
FileNames == {"brief.mnu"}
AlphabetTable_FILENAME == "ISISACW.TAB"

\* response.ansi_remaining_text(): the rest of the payload as one text
ansi_remaining_text(r) == join(r.body, IRBIS_DELIMITER)

\* irbis_to_lines(text): text.split(IRBIS_DELIMITER)
irbis_to_lines(text) == split(text, IRBIS_DELIMITER)

\* irbis_to_dos(text): the delimiters replaced by line ends
irbis_to_dos(text) ==
    [i \in 1..Len(text) |-> IF text[i] = IRBIS_DELIMITER THEN "\n" ELSE text[i]]

\* AlphabetTable.get_default()
AlphabetTable_get_default == <<<<"default">>>>

\* A read_ or require_ command `name` up to the with: the specification is
\* settled (AlphabetTable.FILENAME when none is given), then
\* read_text_stream(specification) builds
\* ClientQuery(self, READ_DOCUMENT).ansi(str(specification)) and executes it
read_text_stream(name, specification) ==
    /\ Probe(name, NoLocal)
    /\ Request(READ_DOCUMENT, <<ansi(specification)>>)
    /\ KeepSession

\* The with-block of read_alphabet_table
read_alphabet_table_response ==
    /\ pc = "resp" /\ op = "read_alphabet_table"
    /\ Release
    /\ response' = <<>>
    /\ LET text == ansi_remaining_text(response[1])
       IN  IF text # <<>>
           THEN Return(<<text>>)
           ELSE Return(AlphabetTable_get_default)
    /\ KeepProbe

\* The with-block of require_alphabet_table
require_alphabet_table_response ==
    /\ pc = "resp" /\ op = "require_alphabet_table"
    /\ Release
    /\ response' = <<>>
    /\ LET text == ansi_remaining_text(response[1])
       IN  IF text = <<>>
           THEN Raise("IrbisFileNotFoundError")
           ELSE Return(<<text>>)
    /\ KeepProbe

\* The with-block of read_menu, read_opt_file and read_par_file: the lines
\* are parsed into a new MenuFile / OptFile / ParFile
read_menu_response ==
    /\ pc = "resp" /\ op \in {"read_menu", "read_opt_file", "read_par_file"}
    /\ Release
    /\ response' = <<>>
    /\ Return(irbis_to_lines(ansi_remaining_text(response[1])))
    /\ KeepProbe

\* The with-block of require_menu, require_opt_file and require_par_file:
\* `if not text` looks at the list of lines
require_menu_response ==
    /\ pc = "resp"
    /\ op \in {"require_menu", "require_opt_file", "require_par_file"}
    /\ Release
    /\ response' = <<>>
    /\ LET text == irbis_to_lines(ansi_remaining_text(response[1]))
       IN  IF text = <<>>
           THEN Raise("IrbisFileNotFoundError")
           ELSE Return(text)
    /\ KeepProbe

\* The with-block of read_text_file
read_text_file_response ==
    /\ pc = "resp" /\ op = "read_text_file"
    /\ Release
    /\ response' = <<>>
    /\ Return(<<irbis_to_dos(ansi_remaining_text(response[1]))>>)
    /\ KeepProbe

\* require_text_file: read_text_file, then `if not result: raise`
require_text_file_response ==
    /\ pc = "resp" /\ op = "require_text_file"
    /\ Release
    /\ response' = <<>>
    /\ LET result == irbis_to_dos(ansi_remaining_text(response[1]))
       IN  IF result = <<>>
           THEN Raise("IrbisFileNotFoundError")
           ELSE Return(<<result>>)
    /\ KeepProbe

----------------------------------------------------------------------------
(* Terms of the search dictionary *)

\* The return codes below zero that read_terms and read_postings accept
READ_TERMS_CODES == {0 - 202, 0 - 203, 0 - 204}

\* The terms read_terms is called with
Terms == {<<"K", "=">>}

\* Connection.read_terms(term) up to `with self.execute(query) as response:`
\* a term alone stands for TermParameters(term) with number = 10
read_terms(term) ==
    /\ Probe("read_terms", NoLocal)
    /\ IF ~Truthy(database)
       THEN Raise("ValueError") /\ NoRequest
       ELSE Request(READ_TERMS, <<ansi(database), term, add(10), <<>>>>)
    /\ KeepSession

\* A read_terms that accepts no code below zero
read_terms_response_generic ==
    /\ pc = "resp" /\ op = "read_terms"
    /\ Release
    /\ response' = <<>>
    /\ IF ~check_return_code(response[1])
       THEN Raise("IrbisError")
       ELSE Return(utf_remaining_lines(response[1]))
    /\ KeepProbe

\* The body of the with-block of read_terms
read_terms_response ==
    /\ pc = "resp" /\ op = "read_terms"
    /\ Release
    /\ response' = <<>>
    /\ IF ~check_return_code_of(response[1], READ_TERMS_CODES)
       THEN Raise("IrbisError")
       ELSE Return(utf_remaining_lines(response[1]))
    /\ KeepProbe

----------------------------------------------------------------------------
(* Commands that take a list of arguments *)

\* The lists the commands are called with: none or one MFN, file
\* specification or INI line; no record or two records
MfnLists == {<<>>, <<0>>, <<5>>}
SpecificationLists == {<<>>, <<"brief.mnu">>}
IniLineLists == {<<>>, <<"KEY=1">>}
RecordBatches ==
    {<<>>,
     <<[Record EXCEPT !.mfn = 5, !.version = 1,
                      !.fields = <<Field_parse(FieldLine1)>>],
       [Record EXCEPT !.database = "X", !.mfn = 6,
                      !.fields = <<Field_parse(FieldLine2)>>]>>}

\* query.ansi(x) for every x of the list
AnsiLines(list) == [i \in 1..Len(list) |-> ansi(list[i])]

\* Connection.read_records(*mfns) for at most one MFN: [] for none, else
\* [self.read_record(array[0])] up to the request of read_record
read_records(mfns) ==
    /\ Len(mfns) <= 1
    /\ Probe("read_records", NoLocal)
    /\ IF mfns = <<>>
       THEN Return(<<>>) /\ NoRequest
       ELSE IF mfns[1] = 0
       THEN Raise("ValueError") /\ NoRequest
       ELSE ReadRequest(mfns[1], 0)
    /\ KeepSession

\* The with-block of read_record inside read_records and the list built
\* from its result
read_records_response ==
    /\ pc = "resp" /\ op = "read_records"
    /\ Release
    /\ response' = <<>>
    /\ LET r == response[1]
           p == Record_parse([Record EXCEPT !.database = database],
                             utf_remaining_lines(r))
       IN  IF ~check_return_code_of(r, READ_RECORD_CODES)
           THEN Raise("IrbisError") /\ record' = record
           ELSE IF p.err # None
           THEN Raise(p.err) /\ record' = record
           ELSE record' = <<p.rec>> /\ Return(<<p.rec>>)
    /\ NoRequest
    /\ local' = local
    /\ KeepSession
    /\ KeepCall

\* Connection.write_records(records) for no record or several: True for
\* none, else one query with a line per record
write_records(records) ==
    /\ Len(records) # 1
    /\ Probe("write_records", NoLocal)
    /\ IF records = <<>>
       THEN Return(TRUE) /\ NoRequest
       ELSE Request(SAVE_RECORD_GROUP,
                    <<add(0), add(1)>> \o
                    [i \in 1..Len(records) |->
                        <<Or(records[i].database, database), IRBIS_DELIMITER,
                          join(encode(records[i]), IRBIS_DELIMITER)>>])
    /\ KeepSession

\* Connection.list_files(*specification): the query is built before the
\* specifications are looked at
list_files(specification) ==
    /\ Probe("list_files", NoLocal)
    /\ query' = [ClientQuery(query_id, client_id, LIST_FILES)
                    EXCEPT !.lines = AnsiLines(specification)]
    /\ query_id' = query'.query_id
    /\ IF specification = <<>>
       THEN Return(<<>>)
       ELSE pc' = "open" /\ ret' = <<>> /\ err' = None
    /\ KeepSession

\* The non-empty parts of the non-empty lines, one after the other
RECURSIVE Files(_)
Files(lines) ==
    IF lines = <<>> THEN <<>>
    ELSE SelectSeq(irbis_to_lines(lines[1]), LAMBDA one : one # <<>>)
            \o Files(Tail(lines))

\* The with-block of list_files
list_files_response ==
    /\ pc = "resp" /\ op = "list_files"
    /\ Release
    /\ response' = <<>>
    /\ Return(Files(response[1].body))
    /\ KeepProbe

\* Connection.unlock_records(records) called by the user, with the
\* database of the session
unlock_records_list(records) ==
    /\ Probe("unlock_records", NoLocal)
    /\ IF records = <<>>
       THEN ReturnNone /\ NoRequest
       ELSE IF ~Truthy(database)
       THEN Raise("ValueError") /\ NoRequest
       ELSE Request(UNLOCK_RECORDS,
                    <<ansi(database)>> \o
                    [i \in 1..Len(records) |-> add(records[i])])
    /\ KeepSession

\* Connection.update_ini_file(lines)
update_ini_file(lines) ==
    /\ Probe("update_ini_file", NoLocal)
    /\ IF lines = <<>>
       THEN ReturnNone /\ NoRequest
       ELSE Request(UPDATE_INI_FILE, AnsiLines(lines))
    /\ KeepSession

\* Connection.write_text_file(*specification): the query is built before
\* the specifications are looked at
write_text_file(specification) ==
    /\ Probe("write_text_file", NoLocal)
    /\ query' = [ClientQuery(query_id, client_id, READ_DOCUMENT)
                    EXCEPT !.lines = AnsiLines(specification)]
    /\ query_id' = query'.query_id
    /\ IF specification = <<>>
       THEN ReturnNone
       ELSE pc' = "open" /\ ret' = <<>> /\ err' = None
    /\ KeepSession

\* `with self.execute(query) as response: response.check_return_code()`
\* of write_records, unlock_records and write_text_file, and
\* execute_forget of update_ini_file
list_command_response ==
    /\ pc = "resp"
    /\ op \in {"write_records", "unlock_records", "update_ini_file",
               "write_text_file"}
    /\ Release
    /\ response' = <<>>
    /\ IF op # "update_ini_file" /\ ~check_return_code(response[1])
       THEN Raise("IrbisError")
       ELSE IF op = "write_records" THEN Return(TRUE)
       ELSE ReturnNone
    /\ KeepProbe

----------------------------------------------------------------------------
(* Leaving `with connection:` and `async with connection:` *)

\* Connection.__exit__ / SyncHandlers.__exit__(exc_type, ...) up to
\* execute_forget inside self.disconnect(); `raised` is `exc_type is not
\* None`
__exit__(raised) ==
    /\ Probe("__exit__", [raised |-> raised])
    /\ IF ~connected
       THEN Return(~raised) /\ NoRequest
       ELSE Request(UNREGISTER_CLIENT, <<ansi(username)>>)
    /\ KeepSession

\* AsyncHandlers.__aexit__(exc_type, ...) up to `await
\* self.execute_async(query)` inside self.disconnect_async()
__aexit__(raised) ==
    /\ Probe("__aexit__", [raised |-> raised])
    /\ IF ~connected
       THEN Return(~raised) /\ NoRequest
       ELSE Request(UNREGISTER_CLIENT, <<ansi(username)>>)
    /\ KeepSession

\* The rest of disconnect / disconnect_async inside the exit handler: the
\* response is closed, self.connected = False, and the handler returns
\* `exc_type is None`
__exit__response ==
    /\ pc = "resp" /\ op \in {"__exit__", "__aexit__"}
    /\ Release
    /\ response' = <<>>
    /\ connected' = FALSE
    /\ Return(~local.raised)
    /\ NoRequest
    /\ KeepCall
    /\ UNCHANGED <<host, port, username, password, database, client_id,
                   _stack, server_version, ini_file, shadow, record, local>>

----------------------------------------------------------------------------
(* The session as a whole *)

HostArgs == {None, DEFAULT_HOST}
PortArgs == {0, DEFAULT_PORT}
UserArgs == {None, "user"}
PasswordArgs == {None, "pwd"}
DatabaseArgs == {None, DEFAULT_DATABASE}

Next ==
    \/ \E h \in HostArgs, p \in PortArgs, u \in UserArgs,
          pw \in PasswordArgs, db \in DatabaseArgs : connect(h, p, u, pw, db)
    \/ connect_response
    \/ connect_async
    \/ AsyncConnection_connect_async
    \/ connect_async_response
    \/ disconnect
    \/ disconnect_response
    \/ disconnect_async
    \/ disconnect_async_response
    \/ execute
    \/ execute_async
    \/ pop_database
    \/ \E name \in PushNames : push_database(name)
    \/ \E script \in Scripts, records \in RecordLists :
          format_records(script, records)
    \/ format_records_response

Spec == Init /\ [][Next]_vars

\* The records write_record is called with
CallerRecords ==
    {Record,
     [Record EXCEPT !.mfn = 5, !.version = 1,
                    !.fields = <<Field_parse(FieldLine1)>>],
     [Record EXCEPT !.database = "X", !.mfn = 5, !.status = 32,
                    !.version = 1,
                    !.fields = <<Field_parse(FieldLine1),
                                 Field_parse(FieldLine2)>>]}

\* A session with all credentials at hand
CmdInit == Init /\ username # None /\ password # None

\* The session registers and then reads, writes, deletes and restores
\* records and asks for counts, blocking and suspending.
CmdNext ==
    \/ connect(None, 0, None, None, None)
    \/ connect_response
    \/ execute
    \/ execute_async
    \/ \E mfn \in MfnArgs, version \in {0, 1} : read_record(mfn, version)
    \/ read_record_response
    \/ unlock_records_response
    \/ \E mfn \in MfnArgs : read_record_async(mfn)
    \/ read_record_async_response
    \/ \E rec \in CallerRecords, dont_parse \in BOOLEAN :
          write_record(rec, dont_parse)
    \/ write_record_response
    \/ \E mfn \in MfnArgs : delete_record(mfn)
    \/ \E mfn \in MfnArgs : undelete_record(mfn)
    \/ \E db \in DatabaseArgs : get_max_mfn(db)
    \/ get_max_mfn_response
    \/ \E db \in DatabaseArgs : SyncHandlers_get_max_mfn(db)
    \/ SyncHandlers_get_max_mfn_response
    \/ \E db \in DatabaseArgs : get_max_mfn_async(db)
    \/ get_max_mfn_async_response
    \/ \E e \in Expressions : search_count(e)
    \/ search_count_response
    \/ \E e \in Expressions : SyncHandlers_search_count(e)
    \/ SyncHandlers_search_count_response
    \/ \E e \in Expressions : search_count_async(e)
    \/ search_count_async_response
    \/ \E script \in Scripts, mfn \in MfnArgs :
          format_record_async(script, mfn)
    \/ format_record_async_response
    \/ \E script \in Scripts, mfn \in MfnArgs :
          SyncHandlers_format_record(script, mfn)
    \/ SyncHandlers_format_record_response
    \/ \E script \in Scripts, mfn \in MfnArgs :
          AsyncHandlers_format_record_async(script, mfn)
    \/ AsyncHandlers_format_record_async_response
    \/ \E name \in {"read_alphabet_table", "require_alphabet_table"} :
          read_text_stream(name, AlphabetTable_FILENAME)
    \/ \E name \in {"read_menu", "read_opt_file", "read_par_file",
                     "read_text_file", "require_menu", "require_opt_file",
                     "require_par_file", "require_text_file"},
          specification \in FileNames :
          read_text_stream(name, specification)
    \/ read_alphabet_table_response
    \/ require_alphabet_table_response
    \/ read_menu_response
    \/ require_menu_response
    \/ read_text_file_response
    \/ require_text_file_response
    \/ \E term \in Terms : read_terms(term)
    \/ read_terms_response
    \/ \E script \in Scripts, mfn \in MfnArgs : format_record(script, mfn)
    \/ format_record_response
    \/ \E script \in Scripts, records \in RecordLists :
          format_records(script, records)
    \/ format_records_response
    \/ \E raised \in BOOLEAN : __exit__(raised)
    \/ \E raised \in BOOLEAN : __aexit__(raised)
    \/ __exit__response

CmdSpec == CmdInit /\ [][CmdNext]_vars

\* The session registers, with or without naming a database, switches
\* between databases and runs commands on them.
StackNext ==
    \/ \E db \in {None, "X"} : connect(None, 0, None, None, db)
    \/ connect_response
    \/ execute
    \/ \E name \in {"", "X"} : push_database(name)
    \/ pop_database
    \/ \E mfn \in MfnArgs, version \in {0, 1} : read_record(mfn, version)
    \/ read_record_response
    \/ unlock_records_response
    \/ \E rec \in CallerRecords : write_record(rec, FALSE)
    \/ write_record_response
    \/ \E e \in Expressions : search_count(e)
    \/ search_count_response
    \/ \E script \in Scripts, mfn \in MfnArgs : format_record(script, mfn)
    \/ format_record_response
    \/ \E term \in Terms : read_terms(term)
    \/ read_terms_response
    \/ \E specification \in FileNames :
          read_text_stream("read_text_file", specification)
    \/ read_text_file_response

StackSpec == CmdInit /\ [][StackNext]_vars

\* The session registers and runs the commands that take lists.
ListNext ==
    \/ connect(None, 0, None, None, None)
    \/ connect_response
    \/ execute
    \/ \E script \in Scripts, records \in RecordLists :
          format_records(script, records)
    \/ format_records_response
    \/ \E mfns \in MfnLists : read_records(mfns)
    \/ read_records_response
    \/ \E records \in RecordBatches : write_records(records)
    \/ \E specification \in SpecificationLists : list_files(specification)
    \/ list_files_response
    \/ \E records \in MfnLists : unlock_records_list(records)
    \/ \E lines \in IniLineLists : update_ini_file(lines)
    \/ \E specification \in SpecificationLists :
          write_text_file(specification)
    \/ list_command_response

ListSpec == CmdInit /\ [][ListNext]_vars

\* The server's answer to a registration request is not the collision code.
ServerAnswersOther ==
    /\ op \in {"connect", "connect_async", "AsyncConnection.connect_async"}
    /\ \E code \in RetCodes \ {CLIENT_ID_COLLISION}, body \in Bodies,
          version \in Versions :
            \/ op = "connect" /\ read_data(code, body, version)
            \/ op # "connect" /\ read_data_async(code, body, version)

\* The command in flight keeps being run and the network keeps answering;
\* a server that is asked again and again eventually answers a registration
\* with a code other than -3337.
LiveSpec ==
    /\ Init
    /\ [][Next]_vars
    /\ WF_vars(Next)
    /\ SF_vars(ServerAnswersOther)

----------------------------------------------------------------------------
(* Properties *)

ConnectOps == {"connect", "connect_async", "AsyncConnection.connect_async"}
DisconnectOps == {"disconnect", "disconnect_async"}

\* C1: blocking connect() on a connected session sends no registration
\* request, opens no connection, returns the cached INI and leaves every
\* session field (client_id and query_id included) unchanged.
C1_ConnectOnConnectedIsNoOp ==
    [][(pc = "idle" /\ connected /\ op' = "connect") =>
        /\ UNCHANGED sessionVars
        /\ pc' = "idle" /\ err' = None
        /\ ret' = <<ini_file>>
        /\ nopen' = 0 /\ nsent' = 0 /\ ngen' = 0]_vars

\* A second connect() has returned the INI of the first without a request.
C1_Witness ==
    /\ op = "connect" /\ pc = "idle" /\ err = None
    /\ connected /\ nsent = 0 /\ ngen = 0
    /\ ini_file = <<Line2>> /\ ret = <<ini_file>>
    /\ client_id = MaxClientId /\ query_id = 1

\* C2: connect_async() on a connected session sends no registration request,
\* draws no client id, does not reset query_id and returns the cached INI.
C2_ConnectAsyncOnConnectedIsNoOp ==
    [][(pc = "idle" /\ connected
            /\ op' \in {"connect_async", "AsyncConnection.connect_async"}) =>
        /\ pc' = "idle" /\ err' = None
        /\ ret' = <<ini_file>>
        /\ client_id' = client_id /\ query_id' = query_id
        /\ nopen' = 0 /\ nsent' = 0 /\ ngen' = 0]_vars

\* C3: a connect (blocking or suspending) on a session that is not connected
\* and lacks a credential after the merge fails at once with the error of
\* throw_value_error: no connection opened, client_id and query_id
\* untouched, still not connected.
C3_MissingCredentialFailsBeforeIO ==
    [][(/\ pc = "idle" /\ ~connected /\ op' \in ConnectOps
        /\ \/ ~Truthy(host') \/ port' = 0 \/ ~Truthy(username')
           \/ ~Truthy(password') \/ ~Truthy(database')) =>
        /\ pc' = "idle" /\ err' = "ValueError"
        /\ client_id' = client_id /\ query_id' = query_id
        /\ nopen' = 0 /\ nsent' = 0 /\ ngen' = 0
        /\ ~connected']_vars

\* C4: every registration request carries query id 1 (reset to 0, then
\* incremented by the query) and the client id just drawn; a connect that
\* was answered k times with -3337 and then with another code has sent k+1
\* requests over k+1 connections, has drawn k+1 client ids and returns with
\* connected = true.
C4_RegistrationLoopCounts ==
    /\ (op \in ConnectOps /\ pc \in {"open", "send", "recv", "resp"}) =>
        /\ query.command = REGISTER_CLIENT
        /\ query.query_id = 1 /\ query_id = 1
        /\ query.client_id = client_id
        /\ ngen < MaxCount =>
            /\ nsent = IF pc \in {"open", "send"} THEN ngen - 1 ELSE ngen
            /\ ncoll = IF pc = "resp" /\ IsCollision(response[1].code)
                       THEN ngen ELSE ngen - 1
    /\ (op \in ConnectOps /\ pc = "idle" /\ err = None /\ ngen > 0
            /\ ngen < MaxCount) =>
        /\ nsent = ncoll + 1
        /\ ngen = ncoll + 1
        /\ nopen = ncoll + 1
        /\ connected

\* connect returned after one collision and one retried request.
C4_Witness ==
    /\ op = "connect" /\ pc = "idle" /\ err = None
    /\ ncoll = 1 /\ nsent = 2 /\ ngen = 2 /\ connected

\* C5: connect repeats the registration exactly when the answer is -3337,
\* and, given a server that eventually answers with another code, every
\* connect that started eventually ends.
C5_ConnectTerminates ==
    /\ [][(op \in ConnectOps /\ pc = "resp") =>
            (pc' = "open" <=> response[1].code = CLIENT_ID_COLLISION)]_vars
    /\ (op \in ConnectOps /\ pc # "idle") ~> (pc = "idle")

\* The loop went round twice and then ended.
C5_Witness ==
    /\ op \in ConnectOps /\ pc = "idle" /\ err = None
    /\ ncoll = 2 /\ ngen = 3

\* C6: disconnect on a session that is not connected returns at once with
\* nothing sent and nothing changed; on a connected session its single
\* request is UNREGISTER_CLIENT and, whatever the return code of the answer,
\* it ends with connected = false; a connect issued after that registers
\* afresh.
C6_Disconnect ==
    [][/\ (pc = "idle" /\ ~connected /\ op' \in DisconnectOps) =>
            /\ UNCHANGED sessionVars
            /\ pc' = "idle" /\ err' = None
            /\ nopen' = 0 /\ nsent' = 0
       /\ (pc = "idle" /\ connected /\ op' \in DisconnectOps) =>
            /\ pc' = "open" /\ query'.command = UNREGISTER_CLIENT
            /\ query'.client_id = client_id
       /\ (pc = "resp" /\ op \in DisconnectOps) =>
            /\ pc' = "idle" /\ err' = None
            /\ ~connected'
            /\ nopen = 1 /\ nsent = 1 /\ nrel' = 1
       /\ (pc = "idle" /\ op \in DisconnectOps /\ ~connected
                /\ op' = "connect" /\ err' = None) =>
            /\ pc' = "open" /\ query'.command = REGISTER_CLIENT
            /\ ngen' = 1 /\ query_id' = 1]_vars

\* A connected session was unregistered although the server answered with
\* a negative code.
C6_Witness ==
    /\ op = "disconnect" /\ pc = "idle" /\ err = None
    /\ nsent = 1 /\ nrel = 1 /\ ~connected
    /\ server_version # None

\* C7: a disconnect that fails with a transport error still ends with
\* connected = false.
C7_DisconnectBestEffort ==
    (op \in DisconnectOps /\ pc = "idle" /\ err = "TransportError") =>
        ~connected

\* C8: pop_database restores the database and the stack to what they were
\* before the matching push_database, at any nesting depth; push returns the
\* previous database and pop the database that was active before the pop.
C8_PushPopRestores ==
    [][/\ (pc = "idle" /\ op' = "pop_database" /\ _stack # <<>>) =>
            /\ database' = shadow[Len(shadow)][1]
            /\ _stack' = shadow[Len(shadow)][2]
            /\ ret' = <<Text(database)>> /\ err' = None
       /\ (pc = "idle" /\ op' = "push_database" /\ err' = None) =>
            /\ ret' = <<Text(database)>>
            /\ database' \in PushNames \ {""}
            /\ Len(_stack') = Len(_stack) + 1]_vars

\* The inner pop of push X; push Y; pop gave back X over the first entry.
C8_Witness ==
    /\ op = "pop_database" /\ pc = "idle" /\ err = None
    /\ Len(_stack) = 1 /\ database = "X" /\ ret = <<Text("Y")>>
    /\ _stack[1] = DEFAULT_DATABASE

\* C9: pop_database on an empty stack raises and leaves the current database
\* and the empty stack as they were.
C9_PopEmptyRaises ==
    [][(pc = "idle" /\ op' = "pop_database" /\ _stack = <<>>) =>
        /\ pc' = "idle" /\ err' = "IndexError"
        /\ database' = database /\ _stack' = <<>>]_vars

\* pop_database has raised on an empty stack.
C9_Witness ==
    /\ op = "pop_database" /\ pc = "idle" /\ err = "IndexError"
    /\ _stack = <<>> /\ database = DEFAULT_DATABASE

\* C10: format_records with a non-empty script and more than MAX_POSTINGS
\* mfns raises IrbisError in the call itself: no query is built (query_id
\* keeps its value), no connection is opened and nothing is sent.
C10_OversizedBatchRejected ==
    [][\A script \in Scripts, records \in RecordLists :
        (/\ format_records(script, records)
         /\ Truthy(script) /\ Len(records) > MAX_POSTINGS) =>
            /\ pc' = "idle" /\ err' = "IrbisError"
            /\ query_id' = query_id /\ query' = query
            /\ nopen' = 0 /\ nsent' = 0]_vars

\* format_records has raised IrbisError without a response to release.
C10_Witness ==
    /\ op = "format_records" /\ pc = "idle" /\ err = "IrbisError"
    /\ nopen = 0 /\ nsent = 0 /\ nrel = 0

----------------------------------------------------------------------------
(* Records on the wire *)

DeleteOps == {"delete_record", "undelete_record"}

\* The answer at hand is an accepted READ_RECORD answer holding a record,
\* in a session that has a current database
ReadAccepted ==
    /\ pc = "resp" /\ query.command = READ_RECORD
    /\ Truthy(database)
    /\ check_return_code_of(response[1], READ_RECORD_CODES)
    /\ Record_parse(Record, utf_remaining_lines(response[1])).err = None

\* The record of the answer at hand, read in the current database
AsRead ==
    Record_parse([Record EXCEPT !.database = database],
                 utf_remaining_lines(response[1])).rec

HasBit(status, bit) == BitAnd(status, bit) # 0

\* The record with the LOGICALLY_DELETED bit set / cleared and nothing
\* else touched
Marked(rec) ==
    [rec EXCEPT !.status = IF HasBit(@, LOGICALLY_DELETED) THEN @
                           ELSE @ + LOGICALLY_DELETED]
Unmarked(rec) ==
    [rec EXCEPT !.status = IF HasBit(@, LOGICALLY_DELETED)
                           THEN @ - LOGICALLY_DELETED ELSE @]

\* The next step hands execute an UPDATE_RECORD request carrying `rec`
WritesBack(rec) ==
    /\ pc' = "open"
    /\ query'.command = UPDATE_RECORD
    /\ query'.lines[4] = join(encode(rec), IRBIS_DELIMITER)
    /\ record' = <<rec>>

\* C11: delete_record(mfn) is a read followed by a write of the record as
\* read with only the LOGICALLY_DELETED bit set (mfn, version, the other
\* status bits and the fields in order as read); undelete_record(mfn) is a
\* read followed by a write with only that bit cleared; a record that is
\* already in the wanted state is not written; both send READ_RECORD and
\* UPDATE_RECORD requests only.
C11_DeleteIsReadModifyWrite ==
    [][/\ (ReadAccepted /\ op = "delete_record") =>
            IF ~is_deleted(AsRead) THEN WritesBack(Marked(AsRead))
            ELSE pc' = "idle" /\ err' = None /\ query' = query
       /\ (ReadAccepted /\ op = "undelete_record") =>
            IF is_deleted(AsRead) THEN WritesBack(Unmarked(AsRead))
            ELSE pc' = "idle" /\ err' = None /\ query' = query
       /\ (op' \in DeleteOps /\ query' # query) =>
            query'.command \in {READ_RECORD, UPDATE_RECORD}]_vars

\* The lines write_record decodes from the answer at hand
EchoLines ==
    <<utf(response[1], 1)>> \o short_irbis_to_lines(utf(response[1], 2))

\* The record those lines stand for, in the database written to
Echoed ==
    [Record_parse(Record, EchoLines).rec EXCEPT !.database = local.database]

\* write_record returns to its caller with the answer at hand
WriteSucceeds ==
    /\ pc = "resp" /\ op = "write_record"
    /\ pc' = "idle" /\ err' = None

\* C12: write_record, when it succeeds, returns the return code of the
\* answer; with dont_parse false the caller's record then is the record
\* echoed by the server (mfn, status, version and fields replaced, database
\* the one written to); with dont_parse true the caller's record is
\* unchanged.
C12_WriteRefreshesRecord ==
    [][WriteSucceeds =>
        /\ ret' = <<get_return_code(response[1])>>
        /\ IF local.dont_parse THEN record' = record
           ELSE record' = <<Echoed>>]_vars

----------------------------------------------------------------------------
(* Probes *)

MaxMfnOps == {"get_max_mfn", "SyncHandlers.get_max_mfn", "get_max_mfn_async"}

\* Some get_max_mfn is called with `db`
MaxMfnCalled(db) ==
    \/ get_max_mfn(db)
    \/ SyncHandlers_get_max_mfn(db)
    \/ get_max_mfn_async(db)

\* C13: get_max_mfn on a connected session sends one GET_MAX_MFN request
\* for the given (or else the current) database and no other request,
\* returns the return code of the answer when that is not negative, and
\* changes nothing of the session but the query counter.
C13_GetMaxMfnProbe ==
    [][/\ \A db \in DatabaseArgs :
            (MaxMfnCalled(db) /\ connected /\ Truthy(Or(db, database))) =>
                /\ pc' = "open"
                /\ query'.command = GET_MAX_MFN
                /\ query'.lines = <<ansi(Or(db, database))>>
                /\ query_id' = query_id + 1
       /\ (pc = "resp" /\ op \in MaxMfnOps
                /\ get_return_code(response[1]) >= 0) =>
                /\ pc' = "idle" /\ err' = None
                /\ ret' = <<get_return_code(response[1])>>
                /\ query_id' = query_id
       /\ (op' \in MaxMfnOps) =>
                UNCHANGED <<host, port, username, password, database,
                            client_id, connected, _stack, server_version,
                            ini_file>>]_vars

----------------------------------------------------------------------------
(* Responses and connections *)

\* The command is between two requests or has ended
BetweenRequests == pc \in {"idle", "open"}

\* C14: a blocking command has released every response it obtained from
\* execute, once each, whenever it goes on to its next request or ends, by
\* a return, an early return, a rejected return code or a decode failure.
C14_BlockingReleasesResponse ==
    (op \in SyncOps /\ BetweenRequests) => nrel = nresp

\* C15: a suspending command has released every response it obtained from
\* execute_async, once each, whenever it goes on to its next request or
\* ends, also when the return code is rejected or the payload cannot be
\* decoded.
C15_SuspendingReleasesResponse ==
    (op \in AsyncOps /\ BetweenRequests) => nrel = nresp

----------------------------------------------------------------------------
(* Blocking and suspending variants *)

\* A step of the blocking get_max_mfn does what the suspending one does
\* from the same state with the same argument and the same answer
MaxMfnVariantsAgree ==
    /\ \A db \in DatabaseArgs :
            SyncHandlers_get_max_mfn(db) => MaxMfnRequest(db)
    /\ SyncHandlers_get_max_mfn_response =>
            Return(get_return_code(response[1]))

\* The same for format_record
FormatRecordVariantsAgree ==
    /\ \A script \in Scripts, mfn \in MfnArgs :
            SyncHandlers_format_record(script, mfn) =>
                IF check_connection /\ Truthy(script)
                THEN FormatRecordRequest(script, mfn)
                ELSE Return(<<>>) /\ NoRequest
    /\ SyncHandlers_format_record_response =>
            IF ~check_return_code(response[1])
            THEN Return(<<>>)
            ELSE Return(utf_remaining_text(response[1]))

\* The same for search_count
SearchCountVariantsAgree ==
    /\ \A expression \in Expressions :
            SyncHandlers_search_count(expression) =>
                IF check_connection
                THEN SearchCountRequest(expression)
                ELSE Return(0) /\ NoRequest
    /\ SyncHandlers_search_count_response =>
            IF ~check_return_code(response[1])
            THEN Return(0)
            ELSE IF ~number_ok(response[1])
            THEN Raise("ValueError")
            ELSE Return(number(response[1]))

\* C16: from equal session states and with equal answers of the server, the
\* blocking and the suspending variant of a command (get_max_mfn,
\* format_record, search_count of the handler classes) send the same
\* requests, return the same value and leave the session in the same state.
C16_VariantsAgree ==
    [][/\ MaxMfnVariantsAgree
       /\ FormatRecordVariantsAgree
       /\ SearchCountVariantsAgree
       /\ (op' \in {"SyncHandlers.get_max_mfn", "SyncHandlers.format_record",
                    "SyncHandlers.search_count", "get_max_mfn_async",
                    "AsyncHandlers.format_record_async",
                    "search_count_async"}) =>
                UNCHANGED <<host, port, username, password, database,
                            client_id, connected, _stack, server_version,
                            ini_file>>]_vars

----------------------------------------------------------------------------
(* Transport failures *)

\* execute / execute_async goes on to its next stage
TransportProgress ==
    \/ pc = "open" /\ pc' = "send"
    \/ pc = "send" /\ pc' = "recv"
    \/ pc = "recv" /\ pc' = "resp"

\* Connecting, sending or receiving fails inside execute / execute_async
TransportFailure ==
    /\ pc \in {"open", "send", "recv"}
    /\ ~TransportProgress
    /\ err' # "CancelledError"

\* C17: a connect, send or receive failure inside execute / execute_async
\* ends the command with a transport error and is not retried: the failed
\* call has sent at most one request and nothing is sent after the failure,
\* the session is as it was, and a connect that failed this way leaves the
\* session not connected and draws no further client id.
C17_TransportFailurePropagates ==
    [][TransportFailure =>
        /\ pc' = "idle" /\ err' = "TransportError" /\ ret' = <<>>
        /\ UNCHANGED <<sessionVars, op, query, nopen, nsent, ngen>>
        /\ conn'.nsend <= 1
        /\ (op \in ConnectOps) => ~connected']_vars

----------------------------------------------------------------------------
(* One connection per request *)

\* C18: each call of execute / execute_async opens one new connection,
\* sends one request packet on it and reads one response from it; nothing
\* is sent or read outside these steps, so no connection carries a second
\* request.
C18_OneConnectionPerRequest ==
    [][/\ (pc = "open" /\ pc' = "send") =>
            /\ nopen' = Inc(nopen)
            /\ conn'.state = "open" /\ conn'.wrote = "nothing"
            /\ conn'.nsend = 0 /\ conn'.nread = 0
       /\ (pc = "send" /\ pc' = "recv") =>
            /\ conn.state = "open"
            /\ conn.nsend = 0 /\ conn'.nsend = 1
            /\ conn'.nread = 0
       /\ (pc = "recv" /\ pc' = "resp") =>
            /\ conn.nsend = 1 /\ conn'.nsend = 1
            /\ conn.nread = 0 /\ conn'.nread = 1
       /\ (pc \in {"idle", "resp"}) =>
            /\ conn'.nsend <= conn.nsend
            /\ conn'.nread <= conn.nread
            /\ nopen' <= nopen]_vars

\* The second request of a delete_record has been answered on a connection
\* of its own
C18_Witness ==
    /\ op = "delete_record" /\ pc = "resp"
    /\ query.command = UPDATE_RECORD
    /\ nopen = 2
    /\ conn.nsend = 1 /\ conn.nread = 1

\* C19: whenever execute / execute_async waits for or has read the
\* response, the whole encoded packet was written on the connection, never
\* only a strict prefix of it.
C19_WholePacketWritten ==
    (pc = "recv" \/ conn.nread > 0) => conn.wrote = "whole"

\* C20: a suspending command that was cancelled or failed inside
\* execute_async has left no open connection behind.
C20_CancelledCallClosesConnection ==
    (/\ op \in AsyncOps
     /\ pc = "idle"
     /\ err \in {"CancelledError", "TransportError"}) => conn.state # "open"

----------------------------------------------------------------------------
(* Building, encoding and parsing a record outside a session *)

\* Field(tag, value): a field with a bare value and no subfields
Field(tag, value) == [tag |-> tag, value |-> value, subfields |-> <<>>]

\* Tags, bare values, ready-made fields and header values a caller uses
Tags == {200}
ValueTexts == {<<"T">>, <<"a", "^", "b", "c">>}
FieldArgs ==
    {[tag |-> 200, value |-> <<"T">>,
      subfields |-> <<[code |-> "a", value |-> <<"S">>]>>],
     Field_parse(FieldLine1),
     Field_parse(FieldLine2)}
Headers ==
    {[mfn |-> 0, status |-> 0, version |-> 0, database |-> None],
     [mfn |-> 5, status |-> 32, version |-> 1, database |-> "X"],
     [mfn |-> 5, status |-> 33, version |-> 1, database |-> None]}

\* Texts handed to Record.parse: those a server sends, a text without lines,
\* first lines without a status part, a text without a version line, a
\* version line without '#', and a field line without a tag
ParseTexts ==
    ReadTexts \cup EchoTexts \cup
    {<<<<"6", "#">>, VersionLine, FieldLine1>>,
     <<<<"6">>, VersionLine>>,
     <<<<"6", "#", "1">>, <<"0">>>>,
     <<<<"6", "#", "1">>, VersionLine, FieldLine1, <<"x", "#", "y">>>>,
     <<<<"6", "#", "0">>, VersionLine, <<>>, FieldLine2, <<>>, FieldLine1>>}

\* A session that is only used to hold a record
CodecInit ==
    /\ Init
    /\ host = DEFAULT_HOST /\ port = DEFAULT_PORT
    /\ username # None /\ password # None /\ database = DEFAULT_DATABASE

\* A method of the record at hand ends: the record as it is left, the
\* value returned and the exception raised
Method(name, rec, value, e) ==
    /\ pc = "idle"
    /\ op' = name
    /\ record' = <<rec>>
    /\ ret' = value
    /\ err' = e
    /\ local' = NoLocal
    /\ UNCHANGED <<sessionVars, pc, query, response, countVars, shadow, conn>>

\* record = Record()
Record_new ==
    /\ record = NoRecord
    /\ Method("Record", Record, <<>>, None)

\* The index of the first field with the tag, 0 when there is none
first(rec, tag) ==
    IF \E i \in 1..Len(rec.fields) : rec.fields[i].tag = tag
    THEN CHOOSE i \in 1..Len(rec.fields) :
            /\ rec.fields[i].tag = tag
            /\ \A j \in 1..(i - 1) : rec.fields[j].tag # tag
    ELSE 0

\* The fields without the one at index i
RemoveAt(fields, i) ==
    SubSeq(fields, 1, i - 1) \o SubSeq(fields, i + 1, Len(fields))

\* add that puts the new field in front of the others
Record_add_front(tag, value) ==
    /\ record # NoRecord
    /\ Len(record[1].fields) < MaxFields
    /\ LET field == Field(tag, value)
       IN  IF \E i \in 1..Len(record[1].fields) : record[1].fields[i] = field
           THEN Method("Record.add", record[1], <<>>, "ValueError")
           ELSE Method("Record.add",
                       [record[1] EXCEPT !.fields = <<field>> \o @],
                       <<field>>, None)

\* Record.add(tag, value)
Record_add(tag, value) ==
    /\ record # NoRecord
    /\ Len(record[1].fields) < MaxFields
    /\ LET field == Field(tag, value)
       IN  IF \E i \in 1..Len(record[1].fields) : record[1].fields[i] = field
           THEN Method("Record.add", record[1], <<>>, "ValueError")
           ELSE Method("Record.add",
                       [record[1] EXCEPT !.fields = @ \o <<field>>],
                       <<field>>, None)

\* record += field
Record_iadd(field) ==
    /\ record # NoRecord
    /\ Len(record[1].fields) < MaxFields
    /\ Method("Record.__iadd__",
              [record[1] EXCEPT !.fields = @ \o <<field>>], <<>>, None)

\* Record.set_field(tag, value)
Record_set_field(tag, value) ==
    /\ record # NoRecord
    /\ LET rec == record[1]
           found == first(rec, tag)
       IN  IF value # <<>>
           THEN IF found = 0
                THEN /\ Len(rec.fields) < MaxFields
                     /\ Method("Record.set_field",
                               [rec EXCEPT !.fields =
                                    @ \o <<Field(tag, value)>>],
                               <<>>, None)
                ELSE Method("Record.set_field",
                            [rec EXCEPT !.fields[found].value = value],
                            <<>>, None)
           ELSE IF found # 0
                THEN Method("Record.set_field",
                            [rec EXCEPT !.fields = RemoveAt(@, found)],
                            <<>>, None)
                ELSE Method("Record.set_field", rec, <<>>, None)

\* Record.remove_field(tag) / del record[tag]
Record_remove_field(tag) ==
    /\ record # NoRecord
    /\ Method("Record.remove_field",
              [record[1] EXCEPT !.fields =
                    SelectSeq(@, LAMBDA f : f.tag # tag)],
              <<>>, None)

\* What record[key] = value is given: nothing, a text, a list of texts
\* (`texts`), a field or a list of fields (`fields`)
SetItemValues ==
    {[kind |-> "none", texts |-> <<>>, fields |-> <<>>],
     [kind |-> "str", texts |-> <<<<"T">>>>, fields |-> <<>>],
     [kind |-> "strs", texts |-> <<<<"T">>, <<"U">>>>, fields |-> <<>>],
     [kind |-> "field", texts |-> <<>>, fields |-> <<Field(200, <<"T">>)>>],
     [kind |-> "field", texts |-> <<>>,
      fields |-> <<Field_parse(FieldLine2)>>],
     [kind |-> "fields", texts |-> <<>>,
      fields |-> <<Field_parse(FieldLine1), Field(200, <<"T">>)>>]}

\* record[key] = value: self.remove_field(key), then the fields made from
\* the texts, or the fields given, are appended
Record_setitem(key, value) ==
    /\ record # NoRecord
    /\ LET kept == SelectSeq(record[1].fields, LAMBDA f : f.tag # key)
           new == [i \in 1..Len(value.texts) |-> Field(key, value.texts[i])]
                      \o value.fields
       IN  /\ Len(kept) + Len(new) <= MaxFields
           /\ Method("Record.__setitem__",
                     [record[1] EXCEPT !.fields = kept \o new], <<>>, None)

\* Record.clear()
Record_clear ==
    /\ record # NoRecord
    /\ Method("Record.clear", [record[1] EXCEPT !.fields = <<>>], <<>>, None)

\* Record.reset()
Record_reset ==
    /\ record # NoRecord
    /\ Method("Record.reset",
              [record[1] EXCEPT !.mfn = 0, !.status = 0, !.version = 0,
                                !.database = None],
              <<>>, None)

\* record.mfn = ...; record.status = ...; record.version = ...;
\* record.database = ...
Record_assign(h) ==
    /\ record # NoRecord
    /\ Method("Record.assign",
              [record[1] EXCEPT !.mfn = h.mfn, !.status = h.status,
                                !.version = h.version,
                                !.database = h.database],
              <<>>, None)

\* Field.clone(): a new field with the same tag and value and clones of
\* the subfields
Field_clone(f) ==
    [tag |-> f.tag, value |-> f.value,
     subfields |-> [i \in 1..Len(f.subfields) |->
                        [code |-> f.subfields[i].code,
                         value |-> f.subfields[i].value]]]

\* The clone is handed back; `shared` tells whether the clone and the
\* record hold one and the same list of fields
Cloned(shared) ==
    /\ pc = "idle"
    /\ record # NoRecord
    /\ op' = "Record.clone"
    /\ ret' = <<[database |-> record[1].database,
                 mfn |-> record[1].mfn,
                 status |-> record[1].status,
                 version |-> record[1].version,
                 fields |-> [i \in 1..Len(record[1].fields) |->
                                Field_clone(record[1].fields[i])]]>>
    /\ err' = None
    /\ local' = [shared |-> shared]
    /\ UNCHANGED <<sessionVars, pc, query, response, countVars, shadow, conn,
                   record>>

\* clone that copies the reference to the list of fields
Record_clone_sharing == Cloned(TRUE)

\* Record.clone(): result.fields is a new list of field.clone()
Record_clone == Cloned(FALSE)

\* clone.add(tag, value) on the record clone() handed back: Record.add on
\* the clone's list of fields
Clone_add(tag, value) ==
    /\ pc = "idle"
    /\ op \in {"Record.clone", "clone.add"}
    /\ Len(ret[1].fields) < MaxFields
    /\ op' = "clone.add"
    /\ LET field == Field(tag, value)
           dup == \E i \in 1..Len(ret[1].fields) : ret[1].fields[i] = field
           fields == IF dup THEN ret[1].fields
                     ELSE Append(ret[1].fields, field)
       IN  /\ err' = IF dup THEN "ValueError" ELSE None
           /\ ret' = <<[ret[1] EXCEPT !.fields = fields]>>
           /\ record' = IF local.shared
                        THEN <<[record[1] EXCEPT !.fields = fields]>>
                        ELSE record
    /\ UNCHANGED <<sessionVars, pc, query, response, countVars, shadow, conn,
                   local>>

\* p = Record(); p.parse(record.encode()): the record is left alone, p and
\* the outcome of parse are handed back
Record_encode_parse ==
    /\ record # NoRecord
    /\ LET p == Record_parse(Record, encode(record[1]))
       IN  Method("Record.encode", record[1], <<p.rec>>, p.err)

\* record.parse(text) with its argument kept
Parse(text, rec, e) ==
    /\ pc = "idle"
    /\ op' = "Record.parse"
    /\ record' = <<rec>>
    /\ ret' = <<>>
    /\ err' = e
    /\ local' = [text |-> text, held |-> Len(record[1].fields)]
    /\ UNCHANGED <<sessionVars, pc, query, response, countVars, shadow, conn>>

\* A parse that empties the record before it looks at the text
Record_parse_text_clearing(text) ==
    /\ record # NoRecord
    /\ LET p == Record_parse([record[1] EXCEPT !.fields = <<>>], text)
       IN  Parse(text, p.rec, p.err)

\* record.parse(text)
Record_parse_text(text) ==
    /\ record # NoRecord
    /\ LET p == Record_parse(record[1], text)
       IN  Parse(text, p.rec, p.err)

\* A caller builds a record, encodes it and parses texts into it
CodecNext ==
    \/ Record_new
    \/ \E tag \in Tags, value \in ValueTexts : Record_add(tag, value)
    \/ \E field \in FieldArgs : Record_iadd(field)
    \/ \E tag \in Tags, value \in ValueTexts \cup {<<>>} :
          Record_set_field(tag, value)
    \/ \E tag \in Tags : Record_remove_field(tag)
    \/ \E key \in Tags, value \in SetItemValues : Record_setitem(key, value)
    \/ Record_clear
    \/ Record_reset
    \/ \E h \in Headers : Record_assign(h)
    \/ Record_encode_parse
    \/ \E text \in ParseTexts : Record_parse_text(text)
    \/ Record_clone
    \/ \E tag \in Tags, value \in ValueTexts : Clone_add(tag, value)

CodecSpec == CodecInit /\ [][CodecNext]_vars

\* The record at hand and the one parsed from its encoding
Original == record[1]
Parsed == ret[1]

\* C21: a fresh record that parsed the encoding of a record built through
\* the mutation methods has the mfn, status, version and fields (tag, bare
\* value, subfields, in order) of that record; the database name does not
\* travel in the encoded lines.
C21_ParseEncodeRoundTrip ==
    (op = "Record.encode") =>
        /\ err = None
        /\ Parsed.mfn = Original.mfn
        /\ Parsed.status = Original.status
        /\ Parsed.version = Original.version
        /\ Parsed.fields = Original.fields
        /\ Parsed.database = None

\* C22: Record.parse of an empty line sequence ends with an error and
\* leaves the mfn, status, version and fields of the record as they were.
C22_ParseOfNothingFails ==
    [][Record_parse_text(<<>>) =>
        /\ err' = "ValueError"
        /\ record'[1].mfn = record[1].mfn
        /\ record'[1].status = record[1].status
        /\ record'[1].version = record[1].version
        /\ record'[1].fields = record[1].fields]_vars

\* A record with a header and fields was asked to parse nothing
C22_Witness ==
    /\ op = "Record.parse" /\ local.text = <<>>
    /\ err = "ValueError"
    /\ record[1].mfn = 5 /\ record[1].status = 32 /\ record[1].version = 1
    /\ Len(record[1].fields) = 2

\* The first line of the text carries no status: no '#', or nothing after it
NoStatusPart(text) ==
    /\ text # <<>>
    /\ LET parts == split(text[1], HASH)
       IN  Len(parts) = 1 \/ parts[2] = <<>>

\* C23: a Record.parse that returns after reading a first line without a
\* status part has set the status to 0, whatever status the record held
\* before.
C23_ParseDefaultsStatus ==
    [][\A text \in ParseTexts :
        (Record_parse_text(text) /\ NoStatusPart(text) /\ err' = None) =>
            record'[1].status = 0]_vars

----------------------------------------------------------------------------
(* Server files *)

ReadOps == {"read_alphabet_table", "read_menu", "read_opt_file",
            "read_par_file", "read_text_file"}
RequireOps == {"require_alphabet_table", "require_menu", "require_opt_file",
               "require_par_file", "require_text_file"}

\* The answer carries no payload: the file is not there
Absent == ansi_remaining_text(response[1]) = <<>>

\* What the read_ operation makes of the payload that is there
ReadValue ==
    LET text == ansi_remaining_text(response[1])
    IN  CASE op \in {"read_alphabet_table", "require_alphabet_table"} ->
                <<text>>
          [] op \in {"read_text_file", "require_text_file"} ->
                <<irbis_to_dos(text)>>
          [] OTHER -> irbis_to_lines(text)

\* C24: a read_ operation and its require_ counterpart send one
\* READ_DOCUMENT request each; when the answer carries no payload the read_
\* operation returns a value and the require_ operation raises the
\* not-found error; when it carries one both return the same value; the
\* response is released in either case.
C24_ReadAndRequire ==
    [][/\ (pc = "idle" /\ pc' = "open" /\ op' \in ReadOps \cup RequireOps) =>
            /\ query'.command = READ_DOCUMENT
            /\ query'.query_id = query_id + 1
       /\ (pc = "resp" /\ op \in ReadOps \cup RequireOps) =>
            /\ pc' = "idle" /\ query' = query
            /\ nrel' = nresp /\ conn'.state = "closed"
            /\ (Absent /\ op \in ReadOps) => err' = None /\ ret' # <<>>
            /\ (Absent /\ op \in RequireOps) =>
                    err' = "IrbisFileNotFoundError"
            /\ ~Absent => err' = None /\ ret' = <<ReadValue>>]_vars

----------------------------------------------------------------------------
(* Return codes *)

\* The commands of Connection that check the return code of their answers
CheckingOps ==
    {"read_record", "read_record_async", "write_record", "delete_record",
     "undelete_record", "get_max_mfn", "search_count", "format_record_async",
     "read_terms", "format_record", "format_records"}

\* The codes below zero a request of the given command has accepted
AcceptedBelowZero(command) ==
    CASE command = READ_RECORD -> READ_RECORD_CODES
      [] command = READ_TERMS -> READ_TERMS_CODES
      [] OTHER -> {}

----------------------------------------------------------------------------
(* Query and client ids *)

\* C26: every query built carries the query id of the session after the
\* step; the registration request of each attempt carries 1, the first id
\* after the reset to 0, and is built by a connect; every other query
\* carries the id of the one before plus one; the query id changes in no
\* other way.
C26_QueryIdCounts ==
    [][(query' # query \/ query_id' # query_id) =>
        /\ query'.query_id = query_id'
        /\ query'.client_id = client_id'
        /\ IF query'.command = REGISTER_CLIENT
           THEN query_id' = 1 /\ op' \in ConnectOps
           ELSE query_id' = query_id + 1]_vars

\* The third request since the registration is on its way
C26_Witness ==
    /\ connected /\ op = "delete_record"
    /\ query.command = UPDATE_RECORD
    /\ query.query_id = 3 /\ query_id = 3
    /\ pc = "recv"

----------------------------------------------------------------------------
(* Validation of the format script *)

\* format_record or format_records is called with an empty script
EmptyScriptCall ==
    \/ \E mfn \in MfnArgs : format_record("", mfn)
    \/ \E mfn \in MfnArgs : SyncHandlers_format_record("", mfn)
    \/ \E records \in RecordLists : format_records("", records)

\* C27: format_record and format_records called with an empty script end
\* at once with the validation error: no query is built, no connection is
\* opened and nothing is tried again.
C27_EmptyScriptRejected ==
    [][EmptyScriptCall =>
        /\ pc' = "idle" /\ err' = "ValueError" /\ ret' = <<>>
        /\ query' = query /\ query_id' = query_id
        /\ conn'.state = "none" /\ nopen' = 0]_vars

----------------------------------------------------------------------------
(* Becoming connected *)

\* C28: the session becomes connected only in answer to a registration
\* request, and only when the return code of that answer is not negative.
C28_ConnectedOnlyAfterAcceptance ==
    [][(~connected /\ connected') =>
        /\ pc = "resp" /\ op \in ConnectOps
        /\ query.command = REGISTER_CLIENT
        /\ get_return_code(response[1]) >= 0]_vars

----------------------------------------------------------------------------
(* Handlers guarded by check_connection *)

\* A guarded handler is called with arguments it accepts
GuardedHandlerCalled ==
    \/ \E db \in DatabaseArgs :
          SyncHandlers_get_max_mfn(db) /\ Truthy(Or(db, database))
    \/ \E e \in Expressions : SyncHandlers_search_count(e)
    \/ \E e \in Expressions : search_count_async(e)
    \/ \E script \in Scripts \ {""}, mfn \in MfnArgs :
          SyncHandlers_format_record(script, mfn)
    \/ \E script \in Scripts \ {""}, mfn \in MfnArgs :
          AsyncHandlers_format_record_async(script, mfn)

\* The value a guarded handler returns without asking the server
HandlerDefault(name) ==
    IF name \in {"SyncHandlers.format_record",
                 "AsyncHandlers.format_record_async"}
    THEN <<>>
    ELSE 0

\* C29: a handler guarded by check_connection sends no request and returns
\* its default value when the session is not connected, and sends its
\* request when the session is connected.
C29_GuardedHandlers ==
    [][GuardedHandlerCalled =>
        IF connected
        THEN pc' = "open" /\ query_id' = query_id + 1 /\ query' # query
        ELSE /\ pc' = "idle" /\ err' = None
             /\ ret' = <<HandlerDefault(op')>>
             /\ query' = query /\ query_id' = query_id
             /\ conn'.state = "none" /\ nopen' = 0]_vars

----------------------------------------------------------------------------
(* The client identifier *)

\* C30: whenever the session is connected, client_id is a six-digit number
\* in 100000..999999, and client_id is changed by nothing but a registration
\* attempt of connect / connect_async: commands, push_database,
\* pop_database and disconnect leave it as it is.
C30_ClientIdOfTheSession ==
    /\ [](connected => client_id \in MinClientId..MaxClientId)
    /\ [][(client_id' # client_id) =>
            /\ op' \in ConnectOps
            /\ pc' = "open"
            /\ query'.command = REGISTER_CLIENT
            /\ query'.client_id = client_id'
            /\ client_id' \in MinClientId..MaxClientId]_vars

\* A connected session that has been through push_database and
\* pop_database and still has the identifier it registered with
C30_Witness ==
    /\ connected /\ client_id = MaxClientId
    /\ op = "pop_database" /\ pc = "idle" /\ err = None
    /\ query.command = REGISTER_CLIENT /\ query.client_id = client_id

----------------------------------------------------------------------------
(* Leaving the scope of a session *)

ExitOps == {"__exit__", "__aexit__"}

\* C31: when a `with connection:` / `async with connection:` scope has been
\* left the session is not connected, whether the body raised or not, and
\* the exit handler returns true only when the body raised nothing, so an
\* exception of the body is not suppressed.
C31_LeavingTheScopeDisconnects ==
    (op \in ExitOps /\ pc = "idle") =>
        /\ ~connected
        /\ (ret = <<TRUE>>) => ~local.raised

----------------------------------------------------------------------------
(* The database stack *)

StackOps == {"push_database", "pop_database"}

\* C32: the depth of the database stack is the number of pushes minus the
\* number of successful pops; push_database and pop_database send nothing
\* and leave connected, client_id and query_id alone; the stack is changed
\* by push_database and pop_database only, and the current database by them
\* and by a connect that names a database, so no command changes either,
\* whether it succeeds or fails.
C32_DatabaseStackFrame ==
    /\ [](Len(_stack) = Len(shadow))
    /\ [][/\ (op' \in StackOps) =>
                /\ pc' = "idle" /\ nopen' = 0 /\ nsent' = 0
                /\ UNCHANGED <<connected, client_id, query_id, query>>
          /\ (_stack' # _stack) => op' \in StackOps
          /\ (database' # database) =>
                \/ op' \in StackOps
                \/ pc = "idle" /\ op' = "connect" /\ ~connected
          /\ connect(None, 0, None, None, None) => database' = database]_vars

\* A record was written to the database pushed after registration
C32_Witness ==
    /\ connected /\ _stack = <<DEFAULT_DATABASE>> /\ database = "X"
    /\ op = "write_record" /\ pc = "idle" /\ err = None
    /\ query.command = UPDATE_RECORD /\ nrel = 1

----------------------------------------------------------------------------
(* Reading a version of a record *)

\* The answer to the READ_RECORD request of read_record is accepted and
\* its lines parse into a record
ReadSucceeds ==
    /\ check_return_code_of(response[1], READ_RECORD_CODES)
    /\ Record_parse([Record EXCEPT !.database = database],
                    utf_remaining_lines(response[1])).err = None

\* C33: read_record(mfn, version) on a session with a database sends the
\* READ_RECORD request first; when version is not 0 and the answer was
\* accepted and parsed it releases that response and then sends one
\* UNLOCK_RECORDS request for exactly that mfn; with version 0, or when the
\* read fails, it ends with no further request; no second unlock follows.
C33_UnlockAfterVersionedRead ==
    [][/\ \A mfn \in MfnArgs \ {0}, version \in {0, 1} :
            read_record(mfn, version) =>
                pc' = "open" /\ query'.command = READ_RECORD
       /\ (pc = "resp" /\ op = "read_record" /\ query.command = READ_RECORD
                /\ Truthy(database)) =>
            IF local.version # 0 /\ ReadSucceeds
            THEN /\ pc' = "open"
                 /\ query'.command = UNLOCK_RECORDS
                 /\ query'.lines = <<ansi(database), add(local.mfn)>>
                 /\ query_id' = query_id + 1
                 /\ nrel' = nresp /\ conn'.state = "closed"
            ELSE pc' = "idle" /\ query' = query
       /\ (query' # query /\ query'.command = UNLOCK_RECORDS) =>
            /\ pc = "resp" /\ op = "read_record"
            /\ query.command = READ_RECORD
       /\ (pc = "resp" /\ op = "read_record"
                /\ query.command = UNLOCK_RECORDS) =>
            pc' = "idle" /\ query' = query]_vars

\* Version 1 of record 5 was read and then unlocked
C33_Witness ==
    /\ op = "read_record" /\ pc = "idle" /\ err = None
    /\ local.version = 1 /\ local.mfn = 5
    /\ query.command = UNLOCK_RECORDS
    /\ nresp = 2 /\ nrel = 2

----------------------------------------------------------------------------
(* Empty argument lists *)

\* A command that takes a list is called with the empty one
EmptyListCall ==
    \/ \E script \in Scripts : format_records(script, <<>>)
    \/ read_records(<<>>)
    \/ write_records(<<>>)
    \/ list_files(<<>>)
    \/ unlock_records_list(<<>>)
    \/ update_ini_file(<<>>)
    \/ write_text_file(<<>>)

\* What the command returns for the empty list
EmptyListResult(name) ==
    IF name \in {"format_records", "read_records", "list_files"}
    THEN <<<<>>>>
    ELSE IF name = "write_records" THEN <<TRUE>>
    ELSE <<>>

\* C34: format_records(script, []), read_records(), write_records([]),
\* list_files(), unlock_records([]), update_ini_file([]) and
\* write_text_file() open no connection, send nothing, return their empty
\* result and leave the session, its query counter included, as it was.
C34_EmptyListIsNoOp ==
    [][EmptyListCall =>
        /\ pc' = "idle" /\ err' = None
        /\ ret' = EmptyListResult(op')
        /\ nopen' = 0 /\ nsent' = 0 /\ conn'.state = "none"
        /\ UNCHANGED sessionVars]_vars

----------------------------------------------------------------------------
(* Deleting what is deleted, restoring what is not *)

\* The record carries the logical or the physical deletion mark
Deleted(rec) ==
    HasBit(rec.status, LOGICALLY_DELETED)
        \/ HasBit(rec.status, PHYSICALLY_DELETED)

\* The record read is already in the state the command is to bring about
NothingToDo ==
    \/ op = "delete_record" /\ Deleted(AsRead)
    \/ op = "undelete_record" /\ ~Deleted(AsRead)

----------------------------------------------------------------------------
(* The fields after a parse *)

\* The lines after the first two that are not blank
FieldLines(text) ==
    SelectSeq(SubSeq(text, 3, Len(text)), LAMBDA line : line # <<>>)

\* C36: after a successful Record.parse(lines) the fields of the record are
\* exactly the fields parsed from the non-blank lines after the first two,
\* in the order of the lines; no field held before remains and a blank line
\* gives no field.
C36_ParseReplacesFields ==
    [][(op' = "Record.parse" /\ err' = None) =>
        LET lines == FieldLines(local'.text) IN
            /\ Len(record'[1].fields) = Len(lines)
            /\ \A i \in 1..Len(lines) :
                    record'[1].fields[i] = Field_parse(lines[i])]_vars

\* A record that held fields was parsed from a text with blank lines
\* between its two field lines
C36_Witness ==
    /\ op = "Record.parse" /\ err = None
    /\ local.held = 2
    /\ Len(local.text) = 6 /\ local.text[3] = <<>>
    /\ record[1].fields = <<Field_parse(FieldLine2), Field_parse(FieldLine1)>>

----------------------------------------------------------------------------
(* Adding a field *)

\* The field is one of the fields
Holds(fields, field) == \E i \in 1..Len(fields) : fields[i] = field

\* C37: Record.add(tag, value) with a positive tag appends the new field
\* after the fields the record has and returns it; when the record holds a
\* field equal to it (same tag, value and subfields) it raises an error and
\* the fields stay as they are; the fields held before keep their order.
C37_AddAppendsOrRaises ==
    [][\A tag \in Tags, value \in ValueTexts :
        Record_add(tag, value) =>
            IF Holds(record[1].fields, Field(tag, value))
            THEN /\ err' = "ValueError" /\ ret' = <<>>
                 /\ record'[1].fields = record[1].fields
            ELSE /\ err' = None /\ ret' = <<Field(tag, value)>>
                 /\ record'[1].fields =
                        Append(record[1].fields, Field(tag, value))]_vars

\* A field was added behind a field with another tag
C37_Witness ==
    /\ op = "Record.add" /\ err = None
    /\ Len(record[1].fields) = 2
    /\ record[1].fields[1].tag = 700
    /\ record[1].fields[2] = Field(200, <<"T">>)
    /\ ret = <<Field(200, <<"T">>)>>

----------------------------------------------------------------------------
(* Assigning and deleting by tag *)

\* The fields with the tag / with another tag, in their order
WithTag(fields, tag) == SelectSeq(fields, LAMBDA f : f.tag = tag)
WithoutTag(fields, tag) == SelectSeq(fields, LAMBDA f : f.tag # tag)

\* mfn, status, version and database are as they were
SameHeader ==
    /\ record'[1].mfn = record[1].mfn
    /\ record'[1].status = record[1].status
    /\ record'[1].version = record[1].version
    /\ record'[1].database = record[1].database

\* C38: del record[tag] / remove_field(tag) leaves exactly the fields with
\* other tags, in their order; record[tag] = value leaves the fields with
\* other tags as they were, in front, and behind them the newly assigned
\* fields, which are then exactly the fields with the tag; neither touches
\* mfn, status, version or database.
C38_AssignAndDeleteByTag ==
    [][/\ \A tag \in Tags :
            Record_remove_field(tag) =>
                /\ record'[1].fields = WithoutTag(record[1].fields, tag)
                /\ SameHeader
       /\ (op' = "Record.__setitem__") =>
            \E tag \in Tags :
                LET new == WithTag(record'[1].fields, tag)
                    kept == WithoutTag(record[1].fields, tag)
                IN  /\ record'[1].fields = kept \o new
                    /\ WithoutTag(record'[1].fields, tag) = kept
                    /\ SameHeader]_vars

----------------------------------------------------------------------------
(* Reset and clone *)

\* The record handed back by clone()
Clone == ret[1]

----------------------------------------------------------------------------
(* A parse that fails *)

\* C40: when Record.parse fails, on whatever text, the record has the mfn,
\* status, version and fields it had before the call.
C40_ParseIsAllOrNothing ==
    [][(op' = "Record.parse" /\ err' # None) =>
        /\ record'[1].mfn = record[1].mfn
        /\ record'[1].status = record[1].status
        /\ record'[1].version = record[1].version
        /\ record'[1].fields = record[1].fields]_vars

====
